---------------------------- MODULE Spec2Model ----------------------------
(***************************************************************************)
(* Query safety and planning engine of insyte (src-tauri/src/data).        *)
(*                                                                         *)
(* Two levels of data are modelled.                                        *)
(*  - The request pipeline (planner, plan executor, the query commands)    *)
(*    works on data frames described by their shape: the row count, the    *)
(*    columns and, per column, the dtype and the number of distinct        *)
(*    values.  What a filter keeps and how many groups remain is a         *)
(*    property of the data, so the actions draw it from the outcomes the   *)
(*    shape allows.  All limits are the program's own constants.           *)
(*  - The Top-N and aggregation functions are also modelled on explicit    *)
(*    small frames (sequences of rows), specification SpecValues, and so   *)
(*    are the sampling strategies, specification SpecSampling.             *)
(* The commands are atomic in Spec; specification SpecLock runs them, and  *)
(* the AI commands of src-tauri/src/ai, concurrently, step by step, around *)
(* the data store's mutex.  Specification SpecStore applies the store's    *)
(* own operations and the three load commands in any order.                *)
(***************************************************************************)
EXTENDS Integers, Sequences, FiniteSets, TLC

VARIABLES
    store,      \* AppDataState: the loaded data frame, or NoData
    pc,         \* "idle" | "planned" | "done": where the current request stands
    req,        \* the request being served (command and arguments)
    plan,       \* the ExecutionPlan built for the request, or NoPlan
    resp,       \* the command's result: Ok value, DataError, or panic
    vals,       \* value-level scratch: input and output of a pure function
    mutex,      \* the Mutex of AppDataState: the task holding its guard, or None
    tasks       \* the commands running concurrently: command, position, clone

vars == <<store, pc, req, plan, resp, vals, mutex, tasks>>

\* Option<T>: None, or Some(v)
None == <<>>
Some(v) == <<v>>
NoPlan == <<>>
NoReq == [op |-> "none"]
NoResp == [kind |-> "none"]
NoVals == [fn |-> "none"]

\* the tasks the runtime runs commands on, none of them in a command
TaskCount == 2
Tasks == 1..TaskCount
IdleTask == [cmd |-> "none", at |-> "idle", df |-> None, columns |-> {}, result |-> None]
IdleTasks == [t \in Tasks |-> IdleTask]

Min(a, b) == IF a <= b THEN a ELSE b
Max(a, b) == IF a >= b THEN a ELSE b
\* ceil(a / b) for a >= 0, b > 0  (f64 division followed by .ceil())
CeilDiv(a, b) == (a + b - 1) \div b

(***************************************************************************)
(* safety.rs: configuration constants                                      *)
(***************************************************************************)
MAX_VISUAL_POINTS == 50000
DEFAULT_BAR_LINE_LIMIT == 500
DEFAULT_SCATTER_LIMIT == 10000
DEFAULT_TABLE_PAGE_SIZE == 100
HIGH_CARDINALITY_THRESHOLD == 1000
DEFAULT_TOP_N == 20
SAMPLING_SEED == 42
\* the head sample CardinalityInfo::estimate inspects
ESTIMATE_SAMPLE_SIZE == 10000

(***************************************************************************)
(* query.rs: configuration constants                                       *)
(***************************************************************************)
BAR_LINE_MAX_POINTS == 500
PIE_MAX_POINTS == 20
SCATTER_MAX_POINTS == 10000
TABLE_MAX_PAGE_SIZE == 1000
LARGE_TABLE_ROWS == 100000

(***************************************************************************)
(* ai/types.rs: the request vocabulary                                     *)
(***************************************************************************)
ChartType == {"bar", "line", "area", "pie", "scatter"}
AggregationType == {"sum", "avg", "count", "min", "max", "median"}
SortField == {"x", "y", "none"}
SortOrder == {"asc", "desc", "none"}
FilterOperator == {"eq", "neq", "gt", "lt", "gte", "lte", "contains",
                   "startsWith", "endsWith", "isNull", "isNotNull"}

(***************************************************************************)
(* Data frames by shape.  A column is [dtype, n_unique, head_unique]:      *)
(* n_unique counts the distinct values of the whole column, head_unique    *)
(* those of its first ESTIMATE_SAMPLE_SIZE rows.                           *)
(***************************************************************************)
Heights == {0, 10, PIE_MAX_POINTS + 1, BAR_LINE_MAX_POINTS + 1, SCATTER_MAX_POINTS,
            SCATTER_MAX_POINTS + 1, LARGE_TABLE_ROWS + 20000}

\* distinct counts a column of h rows can have
UniqueCounts(h) ==
    IF h = 0 THEN {0}
    ELSE {u \in {3, PIE_MAX_POINTS + 1, BAR_LINE_MAX_POINTS + 1, SCATTER_MAX_POINTS + 1, h} :
             u <= h}

\* distinct counts the first ESTIMATE_SAMPLE_SIZE rows can have when the
\* whole column of h rows has u: all of them, or fewer
HeadCounts(h, u) ==
    IF h <= ESTIMATE_SAMPLE_SIZE THEN {u}
    ELSE {Min(u, ESTIMATE_SAMPLE_SIZE)}
            \cup {s \in {BAR_LINE_MAX_POINTS + 1} :
                     /\ u = SCATTER_MAX_POINTS + 1
                     /\ h > 2 * ESTIMATE_SAMPLE_SIZE}

Column(dtype, u, hu) == [dtype |-> dtype, n_unique |-> u, head_unique |-> hu]

\* A frame with a string column, a datetime column of the same cardinality,
\* an all-distinct numeric column and, when withValue, a numeric column
\* that happens to be called "value".
MkDataFrame(h, u, hu, withValue) ==
    LET base == [c \in {"category", "date", "amount"} |->
                    CASE c = "category" -> Column("str", u, hu)
                      [] c = "date"     -> Column("date", u, hu)
                      [] OTHER          -> Column("num", h, Min(h, ESTIMATE_SAMPLE_SIZE))]
        more == [c \in {"category", "date", "amount", "value"} |->
                    IF c = "value" THEN Column("num", h, Min(h, ESTIMATE_SAMPLE_SIZE))
                    ELSE base[c]]
    IN [height |-> h, columns |-> IF withValue THEN more ELSE base]

\* the frames loaded: every shape, and the all-distinct ones also with a
\* "value" column
DataFrames ==
    UNION {UNION {{MkDataFrame(h, u, hu, wv) :
                      hu \in HeadCounts(h, u), wv \in {w \in BOOLEAN : w => u = h /\ h > 0}} :
                  u \in UniqueCounts(h)} :
           h \in Heights}

height(df) == df.height
column_names(df) == DOMAIN df.columns
has_column(df, name) == name \in DOMAIN df.columns

(***************************************************************************)
(* state.rs: DataState.  tables maps a table name to its frame.            *)
(***************************************************************************)
DataState_new ==
    [tables |-> <<>>, table_order |-> <<>>, active_table |-> None, file_path |-> None]

\* an add_dataframe that records the name whether or not it is a key already
add_dataframe_always_pushes(st, name, df) ==
    [st EXCEPT !.table_order = Append(@, name),
               !.tables = [n \in DOMAIN st.tables \cup {name} |->
                              IF n = name THEN df ELSE st.tables[n]]]

add_dataframe(st, name, df) ==
    [st EXCEPT !.table_order = IF name \in DOMAIN st.tables THEN @ ELSE Append(@, name),
               !.tables = [n \in DOMAIN st.tables \cup {name} |->
                              IF n = name THEN df ELSE st.tables[n]]]

\* set_active_table for a name that add_dataframe has just inserted
set_active_table(st, name) ==
    IF name \in DOMAIN st.tables THEN [st EXCEPT !.active_table = Some(name)] ELSE st

set_file_path(st, path) == [st EXCEPT !.file_path = Some(path)]

clear(st) == DataState_new

get_active_dataframe(st) ==
    IF st.active_table # None /\ st.active_table[1] \in DOMAIN st.tables
    THEN Some(st.tables[st.active_table[1]])
    ELSE None

\* the frame the query commands read: data_state.get_dataframe()
get_dataframe(st) == get_active_dataframe(st)

\* ingest.rs load_csv, from the point the file has been read into df
load_csv(st, path, df) ==
    set_file_path(set_active_table(add_dataframe(clear(st), "default", df), "default"), path)

NoData == [type |-> "NoData"]


(***************************************************************************)
(* safety.rs: cardinality estimation                                       *)
(***************************************************************************)
\* ln(total_rows / sample_size) for the row counts of Heights above the
\* sample size, as <<whole part, fraction in 10^-5>> rounded down (f64::ln)
LnRatio(total_rows, sample_size) ==
    IF total_rows = LARGE_TABLE_ROWS + 20000 THEN <<2, 48490>>   \* ln 12
    ELSE <<0, 9>>                                                \* ln 1.0001

\* ceil(unique_count * ratio.ln().max(1.0)); the product with an irrational
\* logarithm is no integer, so the ceiling is the floor plus one
extrapolate(unique_count, total_rows, sample_size) ==
    LET ln == LnRatio(total_rows, sample_size)
    IN IF ln[1] < 1 \/ unique_count = 0 THEN unique_count
       ELSE unique_count * ln[1] + (unique_count * ln[2]) \div 100000 + 1

\* ceil(sqrt(n))
CeilSqrt(n) == CHOOSE k \in 0..1000 : k * k >= n /\ (k = 0 \/ (k - 1) * (k - 1) < n)

determine_action(level, is_numeric, is_datetime, unique_count, total_rows) ==
    CASE level \in {"Low", "Medium"} -> [action |-> "NoAction"]
      [] level = "High" ->
            IF is_datetime THEN [action |-> "ApplyDateBinning", granularity |-> "Month"]
            ELSE [action |-> "ApplyTopN", n |-> DEFAULT_TOP_N]
      [] level = "VeryHigh" ->
            IF is_datetime
            THEN [action |-> "ApplyDateBinning",
                  granularity |-> IF unique_count > 10000 THEN "Year"
                                  ELSE IF unique_count > 1000 THEN "Month"
                                  ELSE "Day"]
            ELSE [action |-> "ApplyTopN", n |-> DEFAULT_TOP_N]
      [] OTHER -> \* Continuous
            IF is_datetime THEN [action |-> "ApplyDateBinning", granularity |-> "Month"]
            ELSE IF total_rows > MAX_VISUAL_POINTS
                 THEN [action |-> "ApplyBinning", bins |-> Min(CeilSqrt(total_rows), 100)]
                 ELSE [action |-> "NoAction"]

CardinalityInfo_estimate(series, total_rows) ==
    LET is_numeric == series.dtype = "num"
        is_datetime == series.dtype = "date"
        sample_size == Min(ESTIMATE_SAMPLE_SIZE, total_rows)
        unique_count == IF total_rows > sample_size THEN series.head_unique
                        ELSE series.n_unique
        estimated_unique ==
            IF total_rows > sample_size
            THEN extrapolate(unique_count, total_rows, sample_size)
            ELSE unique_count
        cardinality_level ==
            IF is_numeric /\ ~is_datetime THEN "Continuous"
            ELSE IF estimated_unique <= 10 THEN "Low"
            ELSE IF estimated_unique <= 100 THEN "Medium"
            ELSE IF estimated_unique <= HIGH_CARDINALITY_THRESHOLD THEN "High"
            ELSE "VeryHigh"
    IN [unique_count |-> estimated_unique,
        total_count |-> total_rows,
        cardinality_level |-> cardinality_level,
        is_numeric |-> is_numeric,
        is_datetime |-> is_datetime,
        recommended_action |->
            determine_action(cardinality_level, is_numeric, is_datetime,
                             estimated_unique, total_rows)]

(***************************************************************************)
(* safety.rs: chart safety policy                                          *)
(***************************************************************************)
ChartSafetyConfig(max_points, requires_aggregation, allows_sampling) ==
    [max_points |-> max_points,
     requires_aggregation |-> requires_aggregation,
     allows_sampling |-> allows_sampling]

for_chart_type(chart_type) ==
    CASE chart_type \in {"bar", "line", "area"} ->
            ChartSafetyConfig(DEFAULT_BAR_LINE_LIMIT, TRUE, FALSE)
      [] chart_type = "pie"     -> ChartSafetyConfig(PIE_MAX_POINTS, TRUE, FALSE)
      [] chart_type = "scatter" -> ChartSafetyConfig(DEFAULT_SCATTER_LIMIT, FALSE, TRUE)
      [] chart_type = "heatmap" -> ChartSafetyConfig(10000, TRUE, FALSE)
      [] chart_type = "table"   -> ChartSafetyConfig(DEFAULT_TABLE_PAGE_SIZE, FALSE, FALSE)
      [] OTHER -> ChartSafetyConfig(DEFAULT_BAR_LINE_LIMIT, TRUE, FALSE)

(***************************************************************************)
(* safety.rs: zoom context.  zoom_level is kept in percent (0..100).       *)
(***************************************************************************)
\* ceil(base_limit * (0.2 + 0.8 * zoom_level)) in f64.  For the zoom levels
\* 0.0 and 1.0 the ratio is 0.2 and 1.0 and the product rounds to the exact
\* one; for 0.5 the sum is 0.6000000000000001, which lifts a product that
\* would be whole to the next integer.
calculate_point_limit(zoom_pct, base_limit) ==
    LET scaled == base_limit * (2000 + 80 * zoom_pct)
    IN IF zoom_pct = 50 /\ scaled % 10000 = 0
       THEN scaled \div 10000 + 1
       ELSE CeilDiv(scaled, 10000)

default_view == 0

(***************************************************************************)
(* safety.rs: reduction metadata.  A ratio a/b is kept as <<a, b>>; the    *)
(* warning text is kept as the list of its parts.                          *)
(***************************************************************************)
ReductionStep(step_type, input_rows, output_rows) ==
    [step_type |-> step_type, input_rows |-> input_rows, output_rows |-> output_rows]

ReductionMetadata_no_reduction(row_count) ==
    [reduced |-> FALSE,
     reduction_reason |-> "None",
     original_row_estimate |-> row_count,
     returned_points |-> row_count,
     sample_ratio |-> None,
     top_n_value |-> None,
     date_bin_granularity |-> None,
     warning_message |-> None,
     reduction_steps |-> <<>>]

ReductionMetadata_aggregated(original, returned) ==
    [reduced |-> TRUE,
     reduction_reason |-> "AutoAggregation",
     original_row_estimate |-> original,
     returned_points |-> returned,
     sample_ratio |-> None,
     top_n_value |-> None,
     date_bin_granularity |-> None,
     warning_message |-> <<<<"automatically aggregated", original, returned>>>>,
     reduction_steps |-> <<ReductionStep("AutoAggregation", original, returned)>>]

ReductionMetadata_sampled(original, returned, ratio) ==
    [reduced |-> TRUE,
     reduction_reason |-> "Sampling",
     original_row_estimate |-> original,
     returned_points |-> returned,
     sample_ratio |-> ratio,
     top_n_value |-> None,
     date_bin_granularity |-> None,
     warning_message |-> <<<<"showing sample", ratio, returned, original>>>>,
     reduction_steps |-> <<ReductionStep("Sampling", original, returned)>>]

add_step(meta, step) ==
    LET steps == Append(meta.reduction_steps, step)
    IN [meta EXCEPT !.reduction_steps = steps,
                    !.reduction_reason = IF Len(steps) > 1 THEN "Combined" ELSE @]


(***************************************************************************)
(* planner.rs: transformations and the execution plan                      *)
(***************************************************************************)
Filter(filters) == [t |-> "Filter", filters |-> filters]
DateBin(column, granularity) == [t |-> "DateBin", column |-> column, granularity |-> granularity]
\* an Aggregate with the grouping column and the measure exchanged
Aggregate_swapped(group_by, measure, aggregation) ==
    [t |-> "Aggregate", group_by |-> measure, measure |-> group_by, aggregation |-> aggregation]
Aggregate(group_by, measure, aggregation) ==
    [t |-> "Aggregate", group_by |-> group_by, measure |-> measure, aggregation |-> aggregation]
TopN(column, n, include_others) ==
    [t |-> "TopN", column |-> column, n |-> n, include_others |-> include_others]
\* a Sample that takes its seed from the clock instead of the fixed seed
Sample_unseeded(target_rows, seed) == [t |-> "Sample", target_rows |-> target_rows, seed |-> 0]
Sample(target_rows, seed) == [t |-> "Sample", target_rows |-> target_rows, seed |-> seed]
\* a limit one above the one asked for
Limit_loose(n) == [t |-> "Limit", n |-> n + 1]
Limit(n) == [t |-> "Limit", n |-> n]
Sort(column, descending) == [t |-> "Sort", column |-> column, descending |-> descending]

Ok(v) == [ok |-> TRUE, value |-> v]
Err(e) == [ok |-> FALSE, error |-> e]
ParseError(msg) == [type |-> "ParseError", msg |-> msg]
ColumnNotFound(column, available) ==
    [type |-> "ColumnNotFound", column |-> column, available |-> available]

ExecutionPlan_blocked(reason, row_count) ==
    [original_row_count |-> row_count,
     safety_config |-> for_chart_type("bar"),
     transformations |-> <<>>,
     reduction_metadata |-> ReductionMetadata_no_reduction(row_count),
     is_safe |-> FALSE,
     blocking_reason |-> Some(reason),
     cardinality_info |-> <<>>]

\* the part of the warning text one reduction step contributes (none or one)
warning_parts(meta, step) ==
    CASE step.step_type = "AutoAggregation" ->
            <<<<"aggregated", step.input_rows, step.output_rows>>>>
      [] step.step_type = "Sampling" ->
            IF meta.sample_ratio # None
            THEN <<<<"sampled", meta.sample_ratio, step.output_rows>>>> ELSE <<>>
      [] step.step_type = "TopN" ->
            IF meta.top_n_value # None THEN <<<<"top", meta.top_n_value[1]>>>> ELSE <<>>
      [] step.step_type = "DateBinning" ->
            IF meta.date_bin_granularity # None
            THEN <<<<"binned", meta.date_bin_granularity[1]>>>> ELSE <<>>
      [] OTHER -> <<>>

RECURSIVE warning_concat(_, _)
warning_concat(meta, steps) ==
    IF steps = <<>> THEN <<>>
    ELSE warning_parts(meta, Head(steps)) \o warning_concat(meta, Tail(steps))

generate_warning_message(meta) ==
    LET parts == warning_concat(meta, meta.reduction_steps)
    IN IF parts = <<>> THEN <<<<"reduced for performance">>>> ELSE parts

\* the Top-N step of QueryPlanner::plan (3d), given the metadata so far
plan_top_n(spec, x_card, safety_config, effective_cardinality, meta) ==
    LET n == IF x_card.recommended_action.action = "ApplyTopN"
             THEN Min(x_card.recommended_action.n, safety_config.max_points)
             ELSE Min(DEFAULT_TOP_N, safety_config.max_points)
    IN [transformations |-> <<TopN(spec.x_field, n, TRUE)>>,
        meta |-> [add_step(meta, ReductionStep("TopN", effective_cardinality, n + 1))
                     EXCEPT !.top_n_value = Some(n)]]

QueryPlanner_plan(zoom_context, df, spec) ==
    LET row_count == height(df)
        safety_config == for_chart_type(spec.chart_type)
    IN
    IF ~has_column(df, spec.x_field)
    THEN Err(ParseError(<<"X field not found in dataset", spec.x_field>>))
    ELSE IF ~has_column(df, spec.y_field)
    THEN Err(ParseError(<<"Y field not found in dataset", spec.y_field>>))
    ELSE
    LET cardinality_info ==
            [f \in {spec.x_field, spec.y_field} |->
                CardinalityInfo_estimate(df.columns[f], row_count)]
        x_card == cardinality_info[spec.x_field]
        \* 3a: filters first
        t_filter == IF spec.filters # <<>> THEN <<Filter(spec.filters)>> ELSE <<>>
        meta0 == ReductionMetadata_no_reduction(row_count)
        \* 3b: date binning
        bins == x_card.is_datetime /\ x_card.recommended_action.action = "ApplyDateBinning"
        t_bin == IF bins
                 THEN <<DateBin(spec.x_field, x_card.recommended_action.granularity)>>
                 ELSE <<>>
        meta1 == IF bins
                 THEN add_step([meta0 EXCEPT !.date_bin_granularity =
                                          Some(x_card.recommended_action.granularity)],
                               ReductionStep("DateBinning", row_count, row_count))
                 ELSE meta0
        \* 3c: aggregation
        needs_aggregation ==
            safety_config.requires_aggregation
               \/ x_card.unique_count > safety_config.max_points
        t_agg == IF needs_aggregation
                 THEN <<Aggregate(spec.x_field, spec.y_field, spec.aggregation)>>
                 ELSE <<>>
        meta2 == IF needs_aggregation
                 THEN ReductionMetadata_aggregated(row_count,
                                                   Min(x_card.unique_count, row_count))
                 ELSE meta1
        \* 3d: Top-N
        effective_cardinality == IF needs_aggregation THEN x_card.unique_count
                                 ELSE row_count
        tops == effective_cardinality > safety_config.max_points
        top == plan_top_n(spec, x_card, safety_config, effective_cardinality, meta2)
        t_top == IF tops THEN top.transformations ELSE <<>>
        meta3 == IF tops THEN top.meta ELSE meta2
        \* 3e: sampling
        samples == safety_config.allows_sampling /\ ~needs_aggregation
                      /\ row_count > safety_config.max_points
        target == calculate_point_limit(zoom_context, safety_config.max_points)
        t_sample == IF samples THEN <<Sample(target, SAMPLING_SEED)>> ELSE <<>>
        meta4 == IF samples
                 THEN ReductionMetadata_sampled(row_count, target, <<target, row_count>>)
                 ELSE meta3
        \* 3f: sorting
        t_sort == CASE spec.sort_by = "x" -> <<Sort(spec.x_field, spec.sort_order = "desc")>>
                    [] spec.sort_by = "y" -> <<Sort("value", spec.sort_order = "desc")>>
                    [] OTHER -> <<>>
        \* 3g: final safety limit
        final_limit == Min(safety_config.max_points, MAX_VISUAL_POINTS)
        meta5 == [meta4 EXCEPT
                    !.reduction_reason = IF Len(meta4.reduction_steps) > 1
                                         THEN "Combined" ELSE @,
                    !.reduced = IF meta4.reduction_steps # <<>> THEN TRUE ELSE @]
        meta6 == IF meta5.reduced
                 THEN [meta5 EXCEPT !.warning_message = generate_warning_message(meta5)]
                 ELSE meta5
    IN Ok([original_row_count |-> row_count,
           safety_config |-> safety_config,
           transformations |->
               t_filter \o t_bin \o t_agg \o t_top \o t_sample \o t_sort
                  \o <<Limit(final_limit)>>,
           reduction_metadata |-> meta6,
           is_safe |-> TRUE,
           blocking_reason |-> None,
           cardinality_info |-> cardinality_info])


(***************************************************************************)
(* What the data decides.  A filter keeps `kept` of the h rows and         *)
(* `kept_unique` of the u distinct values of the X column; date binning    *)
(* maps the distinct dates onto `bins` bins; `others` is the fate of the   *)
(* "Others" row of a Top-N.                                                *)
(***************************************************************************)
FilterOutcomes(h, u) ==
    {<<h, u>>, <<0, 0>>}
       \cup {<<k, Min(u, k)>> : k \in {e \in {10, SCATTER_MAX_POINTS + 1} : e < h}}

BinOutcomes(g) == {Min(12, g), g}

\* the frame after a filter that keeps `kept` rows, `kept_unique` distinct
\* values in column xcol
filter_frame(frame, xcol, kept, kept_unique) ==
    [height |-> kept,
     columns |-> [c \in DOMAIN frame.columns |->
                    IF c = xcol
                    THEN [frame.columns[c] EXCEPT !.n_unique = kept_unique]
                    ELSE [frame.columns[c] EXCEPT !.n_unique = Min(@, kept)]]]

\* a limit that cuts nothing
limit_frame_uncapped(frame, n) == frame

\* the first n rows of a frame (LazyFrame::limit, DataFrame::slice(0, n))
limit_frame(frame, n) ==
    [height |-> Min(frame.height, n),
     columns |-> [c \in DOMAIN frame.columns |->
                    [frame.columns[c] EXCEPT !.n_unique = Min(@, Min(frame.height, n))]]]

\* `n as u32`: every count of the model is below 2^31, where the cast keeps it
u32(n) == n

(***************************************************************************)
(* planner.rs: the plan executor.  The lazy pipeline is the pair of the    *)
(* frame it would produce and the first error its collection raises;       *)
(* `applied` counts the transformations run.                               *)
(***************************************************************************)
\* PlanExecutor::apply_filters: the value types it refuses
apply_filters_error(filters) ==
    LET bad == {i \in 1..Len(filters) :
                   /\ filters[i].operator \in {"gt", "lt", "gte", "lte"}
                   /\ filters[i].value \notin {"f64", "i64"}}
    IN IF bad = {} THEN None
       ELSE ParseError(<<"requires numeric value",
                         filters[CHOOSE i \in bad : \A j \in bad : i <= j].operator>>)

\* the columns a filter list reads that the frame lacks (raised at collect)
filters_missing_column(frame, filters) ==
    \E i \in 1..Len(filters) : filters[i].column \notin DOMAIN frame.columns

EngineError(what) == ParseError(<<"engine", what>>)

apply_filters(lz, filters, o) ==
    IF apply_filters_error(filters) # None
    THEN [lz EXCEPT !.raised = apply_filters_error(filters)]
    ELSE IF filters_missing_column(lz.frame, filters)
    THEN [lz EXCEPT !.err = IF @ = None THEN EngineError("column not found") ELSE @]
    ELSE [lz EXCEPT !.frame = filter_frame(@, o.xcol, Min(o.kept, @.height),
                                           Min(o.kept_unique,
                                               IF o.xcol \in DOMAIN @.columns
                                               THEN @.columns[o.xcol].n_unique ELSE 0))]

apply_date_binning(lz, column, granularity, o) ==
    IF column \notin DOMAIN lz.frame.columns \/ lz.frame.columns[column].dtype # "date"
    THEN [lz EXCEPT !.err = IF @ = None THEN EngineError("date binning") ELSE @]
    ELSE [lz EXCEPT !.frame.columns[column] =
                        [dtype |-> "bin", n_unique |-> Min(o.bins, @.n_unique),
                         head_unique |-> Min(o.bins, @.head_unique)]]

apply_numeric_binning(lz, column, bin_count) == lz

apply_aggregation(lz, group_by, measure, aggregation) ==
    IF group_by \notin DOMAIN lz.frame.columns \/ measure \notin DOMAIN lz.frame.columns
    THEN [lz EXCEPT !.err = IF @ = None THEN EngineError("column not found") ELSE @]
    ELSE LET groups == lz.frame.columns[group_by].n_unique
         IN [lz EXCEPT !.frame =
                [height |-> groups,
                 columns |-> [c \in {group_by, "value"} |->
                                IF c = group_by
                                THEN [lz.frame.columns[group_by] EXCEPT !.head_unique = groups]
                                ELSE Column("num", groups, groups)]]]

\* PlanExecutor::apply_top_n: sort by "value" descending, keep n + 1, collect,
\* and keep n of them when more than n came back
apply_top_n(lz, column, n, include_others) ==
    IF "value" \notin DOMAIN lz.frame.columns
    THEN IF include_others
         THEN [lz EXCEPT !.raised = IF lz.err # None THEN lz.err
                                    ELSE EngineError("column value not found")]
         ELSE [lz EXCEPT !.err = IF @ = None THEN EngineError("column value not found") ELSE @]
    ELSE IF include_others
    THEN IF lz.err # None THEN [lz EXCEPT !.raised = lz.err]
         ELSE LET collected == limit_frame(lz.frame, u32(n + 1))
              IN IF collected.height <= n THEN [lz EXCEPT !.frame = collected]
                 ELSE [lz EXCEPT !.frame = limit_frame(collected, u32(n))]
    ELSE [lz EXCEPT !.frame = limit_frame(@, u32(n))]

\* PlanExecutor::apply_sampling: rows whose index is a multiple of
\* seed % 100 + 1, at most target_rows of them
apply_sampling(lz, target_rows, seed) ==
    [lz EXCEPT !.frame = limit_frame(limit_frame(@, CeilDiv(@.height, (seed % 100) + 1)),
                                     u32(target_rows))]

apply_sort(lz, column) ==
    IF column \notin DOMAIN lz.frame.columns
    THEN [lz EXCEPT !.err = IF @ = None THEN EngineError("sort column not found") ELSE @]
    ELSE lz

apply_transformation(lz, tr, o) ==
    CASE tr.t = "Filter"     -> apply_filters(lz, tr.filters, o)
      [] tr.t = "DateBin"    -> apply_date_binning(lz, tr.column, tr.granularity, o)
      [] tr.t = "NumericBin" -> apply_numeric_binning(lz, tr.column, tr.bin_count)
      [] tr.t = "Aggregate"  -> apply_aggregation(lz, tr.group_by, tr.measure, tr.aggregation)
      [] tr.t = "TopN"       -> apply_top_n(lz, tr.column, tr.n, tr.include_others)
      [] tr.t = "Sample"     -> apply_sampling(lz, tr.target_rows, tr.seed)
      [] tr.t = "Limit"      -> [lz EXCEPT !.frame = limit_frame(@, u32(tr.n))]
      [] OTHER               -> apply_sort(lz, tr.column)

\* the loop of PlanExecutor::execute: `?` leaves it at the first raised error
RECURSIVE run_transformations(_, _, _)
run_transformations(lz, transformations, o) ==
    IF transformations = <<>> \/ lz.raised # None THEN lz
    ELSE LET next == apply_transformation(lz, Head(transformations), o)
         IN run_transformations(
                [next EXCEPT !.applied = IF next.raised = None THEN @ + 1 ELSE @],
                Tail(transformations), o)

\* a result together with the number of transformations that were run
Applied(r, n) == [f \in DOMAIN r \cup {"applied"} |-> IF f = "applied" THEN n ELSE r[f]]

\* an executor that does not look at is_safe
PlanExecutor_execute_unguarded(p, df, o) ==
    Applied(Ok([data |-> df, metadata |-> p.reduction_metadata]), Len(p.transformations))

\* an executor that returns the planner's estimate of the returned points
PlanExecutor_execute_estimate(p, df, o) ==
    IF ~p.is_safe
    THEN Applied(Err(ParseError("Query blocked for safety")), 0)
    ELSE LET lz == run_transformations(
                       [frame |-> df, err |-> None, raised |-> None, applied |-> 0],
                       p.transformations, o)
         IN IF lz.raised # None THEN Applied(Err(lz.raised), lz.applied)
            ELSE IF lz.err # None THEN Applied(Err(lz.err), lz.applied)
            ELSE Applied(Ok([data |-> lz.frame, metadata |-> p.reduction_metadata]),
                         lz.applied)

PlanExecutor_execute(p, df, o) ==
    IF ~p.is_safe
    THEN Applied(Err(ParseError(IF p.blocking_reason # None THEN p.blocking_reason[1]
                                ELSE "Query blocked for safety")), 0)
    ELSE LET lz == run_transformations(
                       [frame |-> df, err |-> None, raised |-> None, applied |-> 0],
                       p.transformations, o)
         IN IF lz.raised # None THEN Applied(Err(lz.raised), lz.applied)
            ELSE IF lz.err # None THEN Applied(Err(lz.err), lz.applied)
            ELSE Applied(Ok([data |-> lz.frame,
                             metadata |-> [p.reduction_metadata EXCEPT
                                              !.returned_points = lz.frame.height]]),
                         lz.applied)


(***************************************************************************)
(* sampling.rs: systematic sampling, by row count                          *)
(***************************************************************************)
\* rows of a frame of `rows` rows that SystematicSampler::sample keeps
SystematicSampler_sample(rows, total_rows, target_size, seed) ==
    IF total_rows <= target_size THEN rows
    ELSE LET interval_int == CeilDiv(total_rows, target_size)
             start == seed % interval_int
             \* indices 0 <= i < rows with (i - start) % interval_int = 0
             hit == IF rows > start THEN CeilDiv(rows - start, interval_int) ELSE 0
         IN Min(hit, u32(target_size))

scatter_sample(rows, total_rows, target_size) ==
    SystematicSampler_sample(rows, total_rows, target_size, SAMPLING_SEED)

(***************************************************************************)
(* query.rs: the query commands                                            *)
(***************************************************************************)
\* apply_filter: the value types it refuses
apply_filter_error(filter) ==
    CASE filter.operator = "eq" ->
            IF filter.value \in {"string", "f64", "i64", "bool"} THEN None
            ELSE ParseError(<<"Unsupported filter value type">>)
      [] filter.operator = "neq" ->
            IF filter.value \in {"string", "f64", "i64"} THEN None
            ELSE ParseError(<<"Unsupported filter value type">>)
      [] filter.operator \in {"gt", "lt", "gte", "lte"} ->
            IF filter.value \in {"f64", "i64"} THEN None
            ELSE ParseError(<<"filter requires numeric value", filter.operator>>)
      [] OTHER -> None

\* the first error the loop `for filter in filters { apply_filter(..)? }` returns
first_filter_error(filters) ==
    LET bad == {i \in 1..Len(filters) : apply_filter_error(filters[i]) # None}
    IN IF bad = {} THEN None
       ELSE apply_filter_error(filters[CHOOSE i \in bad : \A j \in bad : i <= j])

get_max_points_for_chart(chart_type) ==
    CASE chart_type \in {"bar", "line", "area"} -> BAR_LINE_MAX_POINTS
      [] chart_type = "pie" -> PIE_MAX_POINTS
      [] chart_type = "scatter" -> SCATTER_MAX_POINTS
      [] OTHER -> BAR_LINE_MAX_POINTS

\* apply_top_n_with_others by row count: the rows returned and has_others.
\* `others` is what the data decides: the remainder is not positive, or the
\* "Others" row (a string label, an f64 value) is stacked under the top
\* rows, or the engine refuses to stack it for its column types.
top_n_with_others_rows(total_groups, n, include_others, others) ==
    IF total_groups <= n THEN Ok(<<total_groups, FALSE>>)
    ELSE IF include_others /\ total_groups > n
         THEN CASE others = "appended" -> Ok(<<n + 1, TRUE>>)
                [] others = "mismatch" -> Err(EngineError("vstack"))
                [] OTHER -> Ok(<<n, FALSE>>)
         ELSE Ok(<<Min(total_groups, u32(n)), FALSE>>)

\* chart data that never reports a reduction
ChartData_unflagged(points, metadata) ==
    [labels |-> points, data |-> points, metadata |-> [metadata EXCEPT !.reduced = FALSE]]

ChartData(points, metadata) ==
    [labels |-> points, data |-> points, metadata |-> metadata]

execute_visualization_query(st, spec, o) ==
    IF get_dataframe(st) = None THEN Err(NoData)
    ELSE
    LET df == get_dataframe(st)[1]
        total_records == height(df)
    IN
    IF ~has_column(df, spec.x_field)
    THEN Err(ColumnNotFound(spec.x_field, column_names(df)))
    ELSE IF ~has_column(df, spec.y_field)
    THEN Err(ColumnNotFound(spec.y_field, column_names(df)))
    ELSE IF first_filter_error(spec.filters) # None
    THEN Err(first_filter_error(spec.filters))
    ELSE IF filters_missing_column(df, spec.filters)
    THEN Err(EngineError("column not found"))
    ELSE
    LET max_points == get_max_points_for_chart(spec.chart_type)
        filtered == IF spec.filters = <<>> THEN df
                    ELSE filter_frame(df, spec.x_field, o.kept, o.kept_unique)
        aggregated_count == filtered.columns[spec.x_field].n_unique
        top_n == top_n_with_others_rows(aggregated_count, max_points, TRUE, o.others)
    IN
    IF aggregated_count > max_points /\ ~top_n.ok THEN top_n
    ELSE
    LET top == top_n.value
        final_rows == IF aggregated_count > max_points THEN top[1] ELSE aggregated_count
        returned_points == Min(final_rows, u32(MAX_VISUAL_POINTS))
    IN Ok(ChartData(returned_points,
            [total_records |-> total_records,
             reduced |-> aggregated_count > max_points \/ aggregated_count < total_records,
             reduction_reason |->
                 IF aggregated_count > max_points THEN "top-n"
                 ELSE IF aggregated_count < total_records THEN "auto-aggregation"
                 ELSE "none",
             original_row_estimate |-> total_records,
             returned_points |-> returned_points,
             sample_ratio |-> None,
             top_n_value |-> IF aggregated_count > max_points THEN Some(max_points) ELSE None,
             warning_message |->
                 IF aggregated_count > max_points
                 THEN <<"Showing top", max_points, aggregated_count, top[2]>>
                 ELSE IF aggregated_count < total_records
                 THEN <<"Data aggregated", total_records, aggregated_count>>
                 ELSE None]))

execute_scatter_query(st, spec, o) ==
    IF get_dataframe(st) = None THEN Err(NoData)
    ELSE
    LET df == get_dataframe(st)[1]
        total_records == height(df)
    IN
    IF ~has_column(df, spec.x_field)
    THEN Err(ColumnNotFound(spec.x_field, column_names(df)))
    ELSE IF ~has_column(df, spec.y_field)
    THEN Err(ColumnNotFound(spec.y_field, column_names(df)))
    ELSE IF first_filter_error(spec.filters) # None
    THEN Err(first_filter_error(spec.filters))
    ELSE IF filters_missing_column(df, spec.filters)
    THEN Err(EngineError("column not found"))
    ELSE
    LET filtered_count == IF spec.filters = <<>> THEN total_records ELSE o.kept
        samples == filtered_count > SCATTER_MAX_POINTS
        returned_points ==
            IF samples THEN scatter_sample(filtered_count, filtered_count, SCATTER_MAX_POINTS)
            ELSE filtered_count
    IN Ok(ChartData(returned_points,
            [total_records |-> total_records,
             reduced |-> samples,
             reduction_reason |-> IF samples THEN "sampling" ELSE "none",
             original_row_estimate |-> total_records,
             returned_points |-> returned_points,
             sample_ratio |-> IF samples THEN <<SCATTER_MAX_POINTS, filtered_count>> ELSE None,
             top_n_value |-> None,
             warning_message |->
                 IF samples
                 THEN <<"Showing sample", <<SCATTER_MAX_POINTS, filtered_count>>,
                        SCATTER_MAX_POINTS, filtered_count>>
                 ELSE None]))

\* the range filters execute_progressive_query adds (json!(f64) is a number
\* for a finite bound and null otherwise)
range_filters(spec, range_start, range_end) ==
    IF range_start # None /\ range_end # None
    THEN <<[column |-> spec.x_field, operator |-> "gte", value |-> range_start[1]],
           [column |-> spec.x_field, operator |-> "lte", value |-> range_end[1]]>>
    ELSE <<>>

execute_progressive_query(st, spec, zoom_level, range_start, range_end, o) ==
    LET zoom == Max(0, Min(100, zoom_level))
        base_max_points == get_max_points_for_chart(spec.chart_type)
        point_limit == calculate_point_limit(zoom, base_max_points)
        modified_spec ==
            [spec EXCEPT !.filters = @ \o range_filters(spec, range_start, range_end)]
    IN execute_visualization_query(st, modified_spec, o)


(***************************************************************************)
(* Machine words.  usize is USIZE_BITS wide; the arithmetic of             *)
(* execute_table_query wraps (release build) or panics (overflow checks).  *)
(* The model checker's integers are 32 bit, so the word is kept narrower   *)
(* than the target's 64 bit and products are formed modulo the word.       *)
(***************************************************************************)
USIZE_BITS == 24

RECURSIVE Pow2(_)
Pow2(n) == IF n = 0 THEN 1 ELSE 2 * Pow2(n - 1)

USIZE_MOD == Pow2(USIZE_BITS)
USIZE_MAX == USIZE_MOD - 1

RECURSIVE wrapping_mul(_, _)
wrapping_mul(a, b) ==
    IF b = 0 THEN 0
    ELSE LET dbl == (2 * wrapping_mul(a, b \div 2)) % USIZE_MOD
         IN IF b % 2 = 1 THEN (dbl + a) % USIZE_MOD ELSE dbl

mul_overflows(a, b) == b # 0 /\ a > USIZE_MAX \div b

\* `x as i64` for a usize x
as_i64(x) == IF x >= USIZE_MOD \div 2 THEN x - USIZE_MOD ELSE x

Clamp(x, lo, hi) == Max(lo, Min(x, hi))

\* rows DataFrame::slice(offset, length) returns from array_len rows; a
\* negative offset counts from the end.  `legacy` selects the older of the
\* two slice_offsets the library has shipped.
slice_rows_unpaged(offset, length, array_len, legacy) == array_len

slice_rows(offset, length, array_len, legacy) ==
    IF legacy
    THEN LET abs_offset == IF offset < 0 THEN -offset ELSE offset
         IN IF offset < 0
            THEN IF abs_offset <= array_len THEN Min(length, abs_offset)
                 ELSE Min(length, array_len)
            ELSE IF abs_offset <= array_len THEN Min(length, array_len - abs_offset)
                 ELSE 0
    ELSE LET start == IF offset < 0 THEN offset + array_len ELSE offset
             stop == start + length
         IN Clamp(stop, 0, array_len) - Clamp(start, 0, array_len)

Panic(what) == [panic |-> what]

\* env: overflow_checks (the build), legacy_slice (the library)
execute_table_query(st, columns, page, page_size, sort_column, sort_desc, filters, o, env) ==
    IF get_dataframe(st) = None THEN Err(NoData)
    ELSE
    LET df == get_dataframe(st)[1]
        total_records == height(df)
        safe_page_size == Min(page_size, TABLE_MAX_PAGE_SIZE)
    IN
    IF first_filter_error(filters) # None THEN Err(first_filter_error(filters))
    ELSE IF filters_missing_column(df, filters) THEN Err(EngineError("column not found"))
    ELSE IF sort_column # None /\ ~has_column(df, sort_column[1])
    THEN Err(EngineError("sort column not found"))
    ELSE
    LET total_filtered == IF filters = <<>> THEN total_records ELSE o.kept
    IN
    IF mul_overflows(page, safe_page_size) /\ env.overflow_checks
    THEN Panic("attempt to multiply with overflow")
    ELSE
    LET offset == wrapping_mul(page, safe_page_size)
        paginated == slice_rows(as_i64(offset), safe_page_size, total_filtered,
                                env.legacy_slice)
    IN
    IF \E i \in 1..Len(columns) : ~has_column(df, columns[i])
    THEN Err(EngineError("column not found"))
    ELSE IF total_filtered + safe_page_size = 0 /\ env.overflow_checks
    THEN Panic("attempt to subtract with overflow")
    ELSE IF safe_page_size = 0
    THEN Panic("attempt to divide by zero")
    ELSE Ok([rows |-> paginated,
             total_rows |-> total_filtered,
             page |-> page,
             page_size |-> safe_page_size,
             total_pages |-> (total_filtered + safe_page_size - 1) \div safe_page_size,
             warning |-> IF total_records > LARGE_TABLE_ROWS
                         THEN <<"Large dataset", total_records>> ELSE None])


(***************************************************************************)
(* The requests issued to the engine.  A filter value is kept as its JSON  *)
(* type.                                                                   *)
(***************************************************************************)
FilterSpec(column, operator, value) ==
    [column |-> column, operator |-> operator, value |-> value]

GoodFilters == {<<>>, <<FilterSpec("category", "eq", "string")>>}
BadFilters == {<<FilterSpec("amount", "gt", "string")>>,
               <<FilterSpec("missing", "eq", "string")>>}
FilterLists == GoodFilters \cup BadFilters

\* X and Y fields: categorical, temporal and continuous X, and absent fields
GoodFields == {<<"category", "amount">>, <<"date", "amount">>, <<"amount", "category">>}
BadFields == {<<"missing", "amount">>, <<"category", "missing">>}

Sortings == {<<"none", "none">>, <<"x", "asc">>, <<"y", "desc">>}

VisualizationSpec(chart_type, fields, aggregation, sorting, filters) ==
    [chart_type |-> chart_type,
     x_field |-> fields[1],
     y_field |-> fields[2],
     aggregation |-> aggregation,
     sort_by |-> sorting[1],
     sort_order |-> sorting[2],
     filters |-> filters]

VisualizationSpecs ==
    {VisualizationSpec(c, f, "sum", srt, fl) :
        c \in ChartType, f \in GoodFields, srt \in Sortings, fl \in GoodFilters}
      \cup {VisualizationSpec(c, <<"category", "amount">>, "sum", <<"none", "none">>, fl) :
               c \in ChartType, fl \in BadFilters}
      \cup {VisualizationSpec(c, f, "sum", <<"none", "none">>, <<>>) :
               c \in ChartType, f \in BadFields}

ZoomLevels == {default_view, 50, 100}

Pages == {0, 1, 10, (USIZE_MAX \div TABLE_MAX_PAGE_SIZE) + 1, USIZE_MOD \div 2, USIZE_MAX}
PageSizes == {0, 1, DEFAULT_TABLE_PAGE_SIZE, TABLE_MAX_PAGE_SIZE, 5 * TABLE_MAX_PAGE_SIZE,
              USIZE_MAX}
\* columns, sort_column, sort_desc, filters
TableShapes ==
    {<<<<>>, None, FALSE, <<>>>>,
     <<<<"category">>, Some("amount"), TRUE, <<FilterSpec("category", "eq", "string")>>>>,
     <<<<"missing">>, None, FALSE, <<>>>>,
     <<<<>>, Some("missing"), FALSE, <<>>>>,
     <<<<>>, None, FALSE, <<FilterSpec("amount", "gt", "string")>>>>}

BlockingReasons == {"Dataset too large to visualise", "Estimated memory above limit"}

\* what the data decides for one request on frame df: the filter outcome when
\* a filter runs, the bins when dates are binned, the sign of an Others sum
Outcome(xcol, kept, kept_unique, bins, others) ==
    [xcol |-> xcol, kept |-> kept, kept_unique |-> kept_unique, bins |-> bins,
     others |-> others]

OthersOutcomes == {"appended", "nonpositive", "mismatch"}

x_unique(df, xcol) == IF has_column(df, xcol) THEN df.columns[xcol].n_unique ELSE 0

\* filters run and refer to existing columns
filters_run(df, filters) ==
    filters # <<>> /\ first_filter_error(filters) = None
       /\ ~filters_missing_column(df, filters)

Outcomes(df, xcol, filters, binned, ranked) ==
    LET filtered == IF filters_run(df, filters)
                    THEN FilterOutcomes(height(df), x_unique(df, xcol))
                    ELSE {<<height(df), x_unique(df, xcol)>>}
    IN UNION {{Outcome(xcol, q[1], q[2], b, op) :
                  b \in IF binned THEN BinOutcomes(q[2]) ELSE {q[2]},
                  op \in IF ranked THEN OthersOutcomes ELSE {"appended"}} :
              q \in filtered}

Builds ==
    {[overflow_checks |-> oc, legacy_slice |-> ls] : <<oc, ls>> \in BOOLEAN \X BOOLEAN}


\* the outcomes for a request against the store; none to draw without data
RequestOutcomes(st, xcol, filters, binned, ranked) ==
    IF get_dataframe(st) = None THEN {Outcome(xcol, 0, 0, 0, "appended")}
    ELSE Outcomes(get_dataframe(st)[1], xcol, filters, binned, ranked)

\* zoom level and range of a progressive request; a range is given for a
\* numeric X axis only
Views(st, spec) ==
    {<<default_view, None, None>>, <<150, Some("f64"), None>>}
      \cup IF get_dataframe(st) # None /\ has_column(get_dataframe(st)[1], spec.x_field)
              /\ get_dataframe(st)[1].columns[spec.x_field].dtype = "num"
           THEN {<<50, Some("f64"), Some("f64")>>, <<100, Some("null"), Some("f64")>>}
           ELSE {}

(***************************************************************************)
(* The state machine.  A request is served from "idle"; the planner's      *)
(* plan is executed in a second step; Return hands the response over.      *)
(***************************************************************************)
Respond(r) ==
    IF "panic" \in DOMAIN r THEN [kind |-> "panic", what |-> r.panic]
    ELSE IF r.ok THEN [kind |-> "ok", value |-> r.value]
    ELSE [kind |-> "err", error |-> r.error]

Init ==
    /\ store = DataState_new
    /\ pc = "idle"
    /\ req = NoReq
    /\ plan = NoPlan
    /\ resp = NoResp
    /\ mutex = None
    /\ tasks = IdleTasks
    /\ vals = NoVals

LoadData ==
    /\ pc = "idle"
    /\ \E df \in DataFrames : store' = load_csv(store, "data.csv", df)
    /\ UNCHANGED <<mutex, tasks, pc, req, plan, resp, vals>>

ClearData ==
    /\ pc = "idle"
    /\ store' = clear(store)
    /\ UNCHANGED <<mutex, tasks, pc, req, plan, resp, vals>>

PlanRequest ==
    /\ pc = "idle"
    /\ get_dataframe(store) # None
    /\ \E spec \in VisualizationSpecs, zoom \in ZoomLevels :
          LET r == QueryPlanner_plan(zoom, get_dataframe(store)[1], spec)
          IN /\ spec.chart_type = "scatter" \/ zoom = default_view
             /\ req' = [op |-> "plan", spec |-> spec, zoom_level |-> zoom, data |-> None]
             /\ IF r.ok
                THEN plan' = r.value /\ resp' = NoResp /\ pc' = "planned"
                ELSE plan' = NoPlan /\ resp' = Respond(r) /\ pc' = "done"
    /\ UNCHANGED <<mutex, tasks, store, vals>>

BlockPlan ==
    /\ pc = "idle"
    /\ get_dataframe(store) # None
    /\ \E reason \in BlockingReasons :
          /\ req' = [op |-> "block", reason |-> reason, data |-> None]
          /\ plan' = ExecutionPlan_blocked(reason, height(get_dataframe(store)[1]))
    /\ resp' = NoResp
    /\ pc' = "planned"
    /\ UNCHANGED <<mutex, tasks, store, vals>>

plan_filters(p) ==
    IF p.transformations # <<>> /\ Head(p.transformations).t = "Filter"
    THEN Head(p.transformations).filters ELSE <<>>

plan_has(p, kind) == \E i \in 1..Len(p.transformations) : p.transformations[i].t = kind

ExecutePlan ==
    /\ pc = "planned"
    /\ \E o \in RequestOutcomes(store,
                                IF req.op = "plan" THEN req.spec.x_field ELSE "category",
                                plan_filters(plan), plan_has(plan, "DateBin"), FALSE) :
          LET r == PlanExecutor_execute(plan, get_dataframe(store)[1], o)
          IN /\ req' = [req EXCEPT !.data = o]
             /\ resp' = [f \in DOMAIN Respond(r) \cup {"applied"} |->
                            IF f = "applied" THEN r.applied ELSE Respond(r)[f]]
    /\ pc' = "done"
    /\ UNCHANGED <<mutex, tasks, store, plan, vals>>

VisualizationQuery ==
    /\ pc = "idle"
    /\ \E spec \in VisualizationSpecs :
       \E o \in RequestOutcomes(store, spec.x_field, spec.filters, FALSE, TRUE) :
          /\ o.others = "appended" \/ o.kept_unique > get_max_points_for_chart(spec.chart_type)
          /\ req' = [op |-> "visualization", spec |-> spec, data |-> o]
          /\ resp' = Respond(execute_visualization_query(store, spec, o))
    /\ pc' = "done"
    /\ UNCHANGED <<mutex, tasks, store, plan, vals>>

ScatterQuery ==
    /\ pc = "idle"
    /\ \E spec \in {sp \in VisualizationSpecs : sp.chart_type = "scatter"} :
       \E o \in RequestOutcomes(store, spec.x_field, spec.filters, FALSE, FALSE) :
          /\ req' = [op |-> "scatter", spec |-> spec, data |-> o]
          /\ resp' = Respond(execute_scatter_query(store, spec, o))
    /\ pc' = "done"
    /\ UNCHANGED <<mutex, tasks, store, plan, vals>>

ProgressiveQuery ==
    /\ pc = "idle"
    /\ \E spec \in {sp \in VisualizationSpecs : sp.sort_by = "none"} :
       \E view \in Views(store, spec) :
       \E o \in RequestOutcomes(store, spec.x_field,
                                spec.filters \o range_filters(spec, view[2], view[3]),
                                FALSE, TRUE) :
          /\ o.others = "appended" \/ o.kept_unique > get_max_points_for_chart(spec.chart_type)
          /\ req' = [op |-> "progressive", spec |-> spec, zoom_level |-> view[1],
                     range_start |-> view[2], range_end |-> view[3], data |-> o]
          /\ resp' = Respond(execute_progressive_query(store, spec, view[1], view[2],
                                                       view[3], o))
    /\ pc' = "done"
    /\ UNCHANGED <<mutex, tasks, store, plan, vals>>

\* the build decides only where the arithmetic leaves the word
build_matters(st, page, page_size, o) ==
    LET safe == Min(page_size, TABLE_MAX_PAGE_SIZE)
    IN [overflow_checks |-> mul_overflows(page, safe) \/ o.kept + safe = 0,
        legacy_slice |-> as_i64(wrapping_mul(page, safe)) < 0]

TableQuery ==
    /\ pc = "idle"
    /\ \E shape \in TableShapes, page \in Pages, page_size \in PageSizes, env \in Builds :
       \E o \in RequestOutcomes(store, "category", shape[4], FALSE, FALSE) :
          /\ env.overflow_checks => build_matters(store, page, page_size, o).overflow_checks
          /\ env.legacy_slice => build_matters(store, page, page_size, o).legacy_slice
          /\ req' = [op |-> "table", columns |-> shape[1], page |-> page,
                     page_size |-> page_size, sort_column |-> shape[2],
                     sort_desc |-> shape[3], filters |-> shape[4], data |-> o, env |-> env]
          /\ resp' = Respond(execute_table_query(store, shape[1], page, page_size,
                                                 shape[2], shape[3], shape[4], o, env))
    /\ pc' = "done"
    /\ UNCHANGED <<mutex, tasks, store, plan, vals>>

Return ==
    /\ pc = "done"
    /\ pc' = "idle"
    /\ req' = NoReq
    /\ plan' = NoPlan
    /\ resp' = NoResp
    /\ UNCHANGED <<mutex, tasks, store, vals>>

Next ==
    \/ LoadData
    \/ ClearData
    \/ PlanRequest
    \/ BlockPlan
    \/ ExecutePlan
    \/ VisualizationQuery
    \/ ScatterQuery
    \/ ProgressiveQuery
    \/ TableQuery
    \/ Return

Spec == Init /\ [][Next]_vars


(***************************************************************************)
(* Explicit frames.  Raw rows are [x, y]; an aggregated frame is a         *)
(* sequence of rows [x, value] with distinct x.  The engine's group_by     *)
(* returns the groups in any order and its sort breaks ties in any order,  *)
(* so both take the order as an argument.                                  *)
(***************************************************************************)
MaxRows == 3
MaxGroups == 3

RowLabels == {"A", "B"}
RowValues == {-4, 3, 5}
GroupLabels == <<"A", "B", "C", "D", "E">>
GroupValues == {-4, 0, 3, 5}

RowFrames ==
    UNION {[1..k -> [x : RowLabels, y : RowValues]] : k \in 0..MaxRows}

AggregatedFrames ==
    UNION {{[i \in 1..k |-> [x |-> GroupLabels[i], value |-> v[i]]] :
               v \in [1..k -> GroupValues]} :
           k \in 0..MaxGroups}

RECURSIVE SumSeq(_)
SumSeq(q) == IF q = <<>> THEN 0 ELSE Head(q) + SumSeq(Tail(q))

RECURSIVE MinSeq(_)
MinSeq(q) == IF Len(q) = 1 THEN Head(q) ELSE Min(Head(q), MinSeq(Tail(q)))

RECURSIVE MaxSeq(_)
MaxSeq(q) == IF Len(q) = 1 THEN Head(q) ELSE Max(Head(q), MaxSeq(Tail(q)))

\* the orders of the elements of a finite set
Orders(S) ==
    {q \in [1..Cardinality(S) -> S] : \A i, j \in 1..Cardinality(S) : i # j => q[i] # q[j]}

values_of(df) == [i \in 1..Len(df) |-> df[i].value]

\* the y values of the rows of one group, in row order
RECURSIVE group_values(_, _)
group_values(rows, x) ==
    IF rows = <<>> THEN <<>>
    ELSE (IF Head(rows).x = x THEN <<Head(rows).y>> ELSE <<>>)
            \o group_values(Tail(rows), x)

\* the elements of a non-empty sequence in ascending order
ascending(q) ==
    CHOOSE r \in {[i \in 1..Len(q) |-> q[o[i]]] : o \in Orders(1..Len(q))} :
        \A i \in 1..(Len(r) - 1) : r[i] <= r[i + 1]

\* sum, count, min and max are numbers; the mean and the median are f64
\* quotients, kept as <<numerator, denominator>>
aggregate_value(ys, aggregation) ==
    CASE aggregation = "sum"   -> SumSeq(ys)
      [] aggregation = "avg"   -> <<SumSeq(ys), Len(ys)>>
      [] aggregation = "count" -> Len(ys)
      [] aggregation = "min"   -> MinSeq(ys)
      [] aggregation = "max"   -> MaxSeq(ys)
      [] OTHER -> \* median
            LET a == ascending(ys)
            IN <<a[(Len(ys) + 1) \div 2] + a[(Len(ys) + 2) \div 2], 2>>

groups_of(rows) == {rows[i].x : i \in 1..Len(rows)}

\* query.rs apply_aggregation, collected: one row per distinct x, in `order`
query_apply_aggregation(rows, aggregation, order) ==
    [i \in 1..Len(order) |->
        [x |-> order[i], value |-> aggregate_value(group_values(rows, order[i]), aggregation)]]

\* sort(["value"], descending): the orders the engine may return
sort_descending(df) ==
    {r \in {[i \in 1..Len(df) |-> df[o[i]]] : o \in Orders(1..Len(df))} :
        \A i \in 1..(Len(r) - 1) : r[i].value >= r[i + 1].value}

\* query.rs apply_top_n_with_others on a collected frame; `sorted` is the
\* outcome of its sort, `stacks` whether the engine stacks the "Others" row
\* under the frame's columns.  Returns <<frame, has_others>>.
apply_top_n_with_others(df, n, x_field, include_others, sorted, stacks) ==
    LET total_groups == Len(df)
    IN IF total_groups <= n THEN Ok(<<df, FALSE>>)
       ELSE IF include_others /\ total_groups > n
       THEN LET top_n_df == SubSeq(sorted, 1, n)
                top_n_sum == SumSeq(values_of(top_n_df))
                total_sum == SumSeq(values_of(sorted))
                others_sum == total_sum - top_n_sum
            IN IF others_sum > 0
               THEN IF stacks
                    THEN Ok(<<Append(top_n_df, [x |-> "Others", value |-> others_sum]),
                              TRUE>>)
                    ELSE Err(EngineError("vstack"))
               ELSE Ok(<<top_n_df, FALSE>>)
       ELSE Ok(<<SubSeq(sorted, 1, Min(Len(sorted), u32(n))), FALSE>>)

\* planner.rs PlanExecutor::apply_top_n on an aggregated frame
executor_apply_top_n(df, column, n, include_others, sorted) ==
    IF include_others
    THEN LET collected == SubSeq(sorted, 1, Min(Len(sorted), u32(n + 1)))
         IN IF Len(collected) <= n THEN collected
            ELSE SubSeq(collected, 1, Min(Len(collected), u32(n)))
    ELSE SubSeq(sorted, 1, Min(Len(sorted), u32(n)))

(***************************************************************************)
(* The functions on explicit frames: the inputs are drawn initially, an    *)
(* action applies one function.                                            *)
(***************************************************************************)
InitValues ==
    /\ store = DataState_new
    /\ pc = "idle"
    /\ req = NoReq
    /\ plan = NoPlan
    /\ resp = NoResp
    /\ mutex = None
    /\ tasks = IdleTasks
    /\ vals \in {[fn |-> "rows", rows |-> r, aggregation |-> a] :
                    r \in RowFrames, a \in AggregationType}
           \cup {[fn |-> "groups", df |-> d, n |-> n, include_others |-> b] :
                    d \in AggregatedFrames, n \in 1..MaxGroups, b \in BOOLEAN}

AggregateRows ==
    /\ vals.fn = "rows"
    /\ \E order \in Orders(groups_of(vals.rows)) :
          vals' = [fn |-> "apply_aggregation", rows |-> vals.rows,
                   aggregation |-> vals.aggregation,
                   out |-> query_apply_aggregation(vals.rows, vals.aggregation, order)]
    /\ UNCHANGED <<mutex, tasks, store, pc, req, plan, resp>>

TopNWithOthers ==
    /\ vals.fn = "groups"
    /\ \E sorted \in sort_descending(vals.df), stacks \in BOOLEAN :
          LET r == apply_top_n_with_others(vals.df, vals.n, "x", vals.include_others,
                                           sorted, stacks)
          IN vals' = [fn |-> "apply_top_n_with_others", df |-> vals.df, n |-> vals.n,
                      include_others |-> vals.include_others, result |-> Respond(r)]
    /\ UNCHANGED <<mutex, tasks, store, pc, req, plan, resp>>

ExecutorTopN ==
    /\ vals.fn = "groups"
    /\ \E sorted \in sort_descending(vals.df) :
          vals' = [fn |-> "apply_top_n", df |-> vals.df, n |-> vals.n,
                   include_others |-> vals.include_others,
                   out |-> executor_apply_top_n(vals.df, "x", vals.n,
                                                vals.include_others, sorted)]
    /\ UNCHANGED <<mutex, tasks, store, pc, req, plan, resp>>

NextValues ==
    \/ AggregateRows
    \/ TopNWithOthers
    \/ ExecutorTopN

SpecValues == InitValues /\ [][NextValues]_vars


(***************************************************************************)
(* sampling.rs on explicit rows.  A row is [id, category]: id names the    *)
(* row, category is the column a stratified sample groups by.  The engine  *)
(* leaves two orders open, the order of equal keys in a sort and the       *)
(* order of the values unique() returns, so a sampler that meets either    *)
(* yields a set of results.  Seeds, sizes and row counts stay far below    *)
(* the range where the i64 and f64 arithmetic of the source rounds or      *)
(* wraps.                                                                  *)
(***************************************************************************)
MaxSampleRows == 4
DEFAULT_MIN_SAMPLES_PER_STRATUM == 10
RESERVOIR_MODULUS == 1000000007
\* the multiplier 2654435761 of the hash sampler, as 2654 * 10^6 + 435761
HASH_MULTIPLIER_HI == 2654
HASH_MULTIPLIER_LO == 435761

StrataLabels == {"A", "B"}
SampleFrames ==
    UNION {{[i \in 1..k |-> [id |-> i, category |-> c[i]]] : c \in [1..k -> StrataLabels]} :
           k \in 0..MaxSampleRows}
TargetSizes == 1..MaxSampleRows
\* one frame of a single stratum, long enough for the f64 product
\* stratum_size * (target_size / total_rows) to round above an integer
WideRows == 25
WideFrame == [i \in 1..WideRows |-> [id |-> i, category |-> "A"]]
WideTargets == {7, 14}
Seeds == {0, 1, SAMPLING_SEED}
StratifyBy == {None, Some("category"), Some("region")}
MinSamples == {1, DEFAULT_MIN_SAMPLES_PER_STRATUM}

SamplingConfig(target_size, seed, stratify_by, min_samples_per_stratum) ==
    [target_size |-> target_size,
     seed |-> seed,
     preserve_distribution |-> TRUE,
     stratify_by |-> stratify_by,
     min_samples_per_stratum |-> min_samples_per_stratum]

SamplingConfigs ==
    {SamplingConfig(t, sd, by, m) :
        t \in TargetSizes, sd \in Seeds, by \in StratifyBy, m \in MinSamples}

RECURSIVE GCD(_, _)
GCD(a, b) == IF b = 0 THEN a ELSE GCD(b, a % b)

\* the f64 quotient a / b, in lowest terms (1.0 is <<1, 1>>)
Ratio(a, b) == IF b = 0 THEN <<a, b>> ELSE <<a \div GCD(a, b), b \div GCD(a, b)>>

SamplingResult(data, original_rows, sampled_rows, sample_ratio, preserved, method, strata_stats) ==
    [data |-> data,
     original_rows |-> original_rows,
     sampled_rows |-> sampled_rows,
     sample_ratio |-> sample_ratio,
     distribution_preserved |-> preserved,
     method |-> method,
     strata_stats |-> strata_stats]

\* the rows of df at the positions in S, in row order
RECURSIVE keep_rows(_, _, _)
keep_rows(df, S, i) ==
    IF i > Len(df) THEN <<>>
    ELSE (IF i \in S THEN <<df[i]>> ELSE <<>>) \o keep_rows(df, S, i + 1)

first_rows(df, n) == SubSeq(df, 1, Min(Len(df), u32(n)))

reservoir_hash(idx, seed) == (idx * seed) % RESERVOIR_MODULUS

\* the sets of k rows that a sort by score followed by limit(k) may keep:
\* every row whose score and all scores up to it fit in k, and, of the rows
\* tied at the k-th score, as many as still fit
lowest_sets(k, score) ==
    LET n == Len(score)
        less(i) == Cardinality({j \in 1..n : score[j] < score[i]})
        upto(i) == Cardinality({j \in 1..n : score[j] <= score[i]})
        sure == {i \in 1..n : upto(i) <= k}
        tied == {i \in 1..n : less(i) < k} \ sure
    IN {sure \cup P : P \in {Q \in SUBSET tied :
                                Cardinality(Q) = Min(n, k) - Cardinality(sure)}}

\* a selection that keeps the rows of highest hash
reservoir_keeps_highest(df, target_size, seed) ==
    LET score == [i \in 1..Len(df) |-> 0 - (i - 1) * seed]
    IN {keep_rows(df, S, 1) : S \in lowest_sets(target_size, score)}

\* sort by hash, limit(target_size), sort back by row index: the frames the
\* engine may return, one for each way it orders rows of equal hash
reservoir_keeps(df, target_size, seed) ==
    LET score == [i \in 1..Len(df) |-> reservoir_hash(i - 1, seed)]
    IN {keep_rows(df, S, 1) : S \in lowest_sets(u32(target_size), score)}

\* ReservoirSampler::sample without its early return
ReservoirSampler_sample_always(df, total_rows, config) ==
    {Ok(SamplingResult(d, total_rows, Len(d), Ratio(config.target_size, total_rows),
                       TRUE, "Reservoir", None)) :
        d \in reservoir_keeps(df, config.target_size, config.seed)}

ReservoirSampler_sample(df, total_rows, config) ==
    IF total_rows <= config.target_size
    THEN {Ok(SamplingResult(df, total_rows, total_rows, Ratio(1, 1), TRUE, "Reservoir",
                            None))}
    ELSE {Ok(SamplingResult(d, total_rows, Len(d),
                            Ratio(config.target_size, total_rows), TRUE, "Reservoir",
                            None)) :
             d \in reservoir_keeps(df, config.target_size, config.seed)}

strata_of(df) == {df[i].category : i \in 1..Len(df)}

RECURSIVE stratum_rows(_, _)
stratum_rows(df, v) ==
    IF df = <<>> THEN <<>>
    ELSE (IF Head(df).category = v THEN <<Head(df)>> ELSE <<>>)
            \o stratum_rows(Tail(df), v)

\* floor(log2(q)) for q >= 1, and the least b with t * 2^b >= n
RECURSIVE log2_floor(_)
log2_floor(q) == IF q < 2 THEN 0 ELSE 1 + log2_floor(q \div 2)
RECURSIVE binary_exponent(_, _)
binary_exponent(t, n) == IF t >= n THEN 0 ELSE 1 + binary_exponent(2 * t, n)
RECURSIVE pow2_mod(_, _)
pow2_mod(e, n) == IF e = 0 THEN 1 % n ELSE (2 * pow2_mod(e - 1, n)) % n

\* (s as f64 * (t as f64 / n as f64)).ceil() for 0 < t < n and 0 <= s <= n.
\* The quotient t / n is rounded to 53 bits: with b the binary exponent, it
\* is rounded up when the remainder of t * 2^(52+b) by n is above n / 2.
\* When s * t / n is not an integer the product's ceiling is the exact one;
\* when it is an integer q, the product of s and a quotient rounded up
\* lies above q, and rounds to the next f64 above q, whose ceiling is q + 1,
\* when it exceeds q by more than half the spacing 2^(log2 q - 52).
f64_scaled_ceil(s, t, n) ==
    IF (s * t) % n # 0 \/ s = 0 THEN CeilDiv(s * t, n)
    ELSE LET q == (s * t) \div n
             b == binary_exponent(t, n)
             rem == (t * pow2_mod(52 + b, n)) % n
         IN IF 2 * rem > n /\ s * (n - rem) > n * Pow2(log2_floor(q) + b - 1)
            THEN q + 1 ELSE q

\* ((stratum_size as f64 * overall_ratio).ceil() as usize).max(min).min(stratum_size)
target_for_stratum(stratum_size, config, total_rows) ==
    Min(Max(f64_scaled_ceil(stratum_size, config.target_size, total_rows),
            config.min_samples_per_stratum),
        stratum_size)

\* the loop over the strata from the i-th on (i = 1 is the source's i = 0):
\* the lists of per-stratum results it may collect
RECURSIVE stratified_parts(_, _, _, _)
stratified_parts(df, unique_strata, i, config) ==
    IF i > Len(unique_strata) THEN {<<>>}
    ELSE LET stratum_df == stratum_rows(df, unique_strata[i])
             stratum_size == Len(stratum_df)
             stratum_config ==
                 [config EXCEPT
                     !.target_size = target_for_stratum(stratum_size, config, Len(df)),
                     !.seed = config.seed + (i - 1)]
         IN {<<[stratum_value |-> unique_strata[i], result |-> r.value]>> \o rest :
                r \in ReservoirSampler_sample(stratum_df, stratum_size, stratum_config),
                rest \in stratified_parts(df, unique_strata, i + 1, config)}

\* vstack of the sampled frames, in the order of the strata
RECURSIVE combined_frames(_)
combined_frames(parts) ==
    IF parts = <<>> THEN <<>>
    ELSE Head(parts).result.data \o combined_frames(Tail(parts))

strata_stats_of(parts) ==
    [i \in 1..Len(parts) |->
        [stratum_value |-> parts[i].stratum_value,
         original_count |-> parts[i].result.original_rows,
         sampled_count |-> parts[i].result.sampled_rows,
         sample_ratio |-> parts[i].result.sample_ratio]]

\* the frame has the one column "category" to stratify by
StratifiedSampler_sample(df, config) ==
    LET total_rows == Len(df)
    IN IF total_rows <= config.target_size
       THEN {Ok(SamplingResult(df, total_rows, total_rows, Ratio(1, 1), TRUE,
                               "Stratified", None))}
       ELSE IF config.stratify_by = None
       THEN ReservoirSampler_sample(df, total_rows, config)
       ELSE IF config.stratify_by[1] # "category"
       THEN {Err(EngineError("column not found"))}
       ELSE UNION {
               {IF parts = <<>> THEN Err(ParseError(<<"No strata to sample">>))
                ELSE Ok(SamplingResult(combined_frames(parts), total_rows,
                                       Len(combined_frames(parts)),
                                       Ratio(Len(combined_frames(parts)), total_rows),
                                       TRUE, "Stratified", Some(strata_stats_of(parts)))) :
                   parts \in stratified_parts(df, unique_strata, 1, config)} :
               unique_strata \in Orders(strata_of(df))}

\* SystematicSampler::sample on explicit rows
SystematicSampler_sample_rows(df, total_rows, config) ==
    IF total_rows <= config.target_size
    THEN Ok(SamplingResult(df, total_rows, total_rows, Ratio(1, 1), TRUE, "Systematic",
                           None))
    ELSE LET interval_int == CeilDiv(total_rows, config.target_size)
             start == config.seed % interval_int
             hits == {i \in 1..Len(df) :
                         (i - 1) >= start /\ ((i - 1) - start) % interval_int = 0}
             sampled == first_rows(keep_rows(df, hits, 1), config.target_size)
         IN Ok(SamplingResult(sampled, total_rows, Len(sampled),
                              Ratio(Len(sampled), total_rows), TRUE, "Systematic", None))

\* 2654435761 modulo m
hash_multiplier_mod(m) ==
    ((HASH_MULTIPLIER_HI % m) * (1000000 % m) + HASH_MULTIPLIER_LO) % m

HashSampler_sample(df, config) ==
    LET total_rows == Len(df)
    IN IF total_rows <= config.target_size
       THEN Ok(SamplingResult(df, total_rows, total_rows, Ratio(1, 1), TRUE, "Hash", None))
       ELSE LET modulo == CeilDiv(total_rows, config.target_size)
                hits == {i \in 1..Len(df) :
                            ((i - 1) * hash_multiplier_mod(modulo) + config.seed)
                               % modulo = 0}
                sampled == first_rows(keep_rows(df, hits, 1), config.target_size)
            IN Ok(SamplingResult(sampled, total_rows, Len(sampled),
                                 Ratio(Len(sampled), total_rows), FALSE, "Hash", None))

(***************************************************************************)
(* The samplers applied: a frame and a configuration are drawn initially,  *)
(* and one strategy samples the frame twice.                               *)
(***************************************************************************)
SamplingMethod == {"Reservoir", "Stratified", "Systematic", "Hash"}

InitSampling ==
    /\ store = DataState_new
    /\ pc = "idle"
    /\ req = NoReq
    /\ plan = NoPlan
    /\ resp = NoResp
    /\ mutex = None
    /\ tasks = IdleTasks
    /\ vals \in {[fn |-> "sample", method |-> m, df |-> df, config |-> c, runs |-> <<>>] :
                    m \in SamplingMethod, df \in SampleFrames, c \in SamplingConfigs}
                 \cup
                 {[fn |-> "sample", method |-> "Stratified", df |-> WideFrame,
                   config |-> SamplingConfig(t, sd, Some("category"), m), runs |-> <<>>] :
                    t \in WideTargets, sd \in Seeds \ {0}, m \in MinSamples}

sampled_by(method) == vals.method = method /\ Len(vals.runs) < 2

SampleReservoir ==
    /\ sampled_by("Reservoir")
    /\ \E r \in ReservoirSampler_sample(vals.df, Len(vals.df), vals.config) :
          vals' = [vals EXCEPT !.runs = Append(@, Respond(r))]
    /\ UNCHANGED <<mutex, tasks, store, pc, req, plan, resp>>

SampleStratified ==
    /\ sampled_by("Stratified")
    /\ \E r \in StratifiedSampler_sample(vals.df, vals.config) :
          vals' = [vals EXCEPT !.runs = Append(@, Respond(r))]
    /\ UNCHANGED <<mutex, tasks, store, pc, req, plan, resp>>

SampleSystematic ==
    /\ sampled_by("Systematic")
    /\ vals' = [vals EXCEPT !.runs =
                   Append(@, Respond(SystematicSampler_sample_rows(vals.df, Len(vals.df),
                                                                   vals.config)))]
    /\ UNCHANGED <<mutex, tasks, store, pc, req, plan, resp>>

SampleHash ==
    /\ sampled_by("Hash")
    /\ vals' = [vals EXCEPT !.runs = Append(@, Respond(HashSampler_sample(vals.df,
                                                                          vals.config)))]
    /\ UNCHANGED <<mutex, tasks, store, pc, req, plan, resp>>

NextSampling ==
    \/ SampleReservoir
    \/ SampleStratified
    \/ SampleSystematic
    \/ SampleHash

SpecSampling == InitSampling /\ [][NextSampling]_vars


(***************************************************************************)
(* The commands as concurrent tasks around the mutex of AppDataState.  A   *)
(* command locks the mutex and binds the guard to the local data_state;    *)
(* no command drops the guard explicitly, so it is released when the       *)
(* command returns.  A task stands at "idle", "waiting" (invoked, the lock *)
(* not yet taken), "locked", "computing" (the frame cloned, the lazy       *)
(* pipeline running), "computed" (the result collected) or "returned".     *)
(***************************************************************************)
QueryCommands ==
    {"execute_visualization_query", "execute_scatter_query", "execute_table_query"}
StoreCommands == {"load_csv", "clear_data"}
AICommands == {"process_ai_query", "process_ai_chat"}

\* the frames a load_csv has read from its file
LockFrames == {df \in DataFrames : height(df) \in {0, 10}}

RequestFailed(msg) == [type |-> "RequestFailed", msg |-> msg]

\* ai/query.rs: the first column the spec names that the columns lack
validate_spec(spec, columns) ==
    IF spec.x_field \notin columns
    THEN Err(RequestFailed(<<"Column not found in dataset", spec.x_field>>))
    ELSE IF spec.y_field \notin columns
    THEN Err(RequestFailed(<<"Column not found in dataset", spec.y_field>>))
    ELSE IF spec.group_by # None /\ spec.group_by[1] \notin columns
    THEN Err(RequestFailed(<<"Group by column not found in dataset", spec.group_by[1]>>))
    ELSE IF \E i \in 1..Len(spec.filters) : spec.filters[i].column \notin columns
    THEN LET i == CHOOSE j \in 1..Len(spec.filters) :
                     /\ spec.filters[j].column \notin columns
                     /\ \A k \in 1..(j - 1) : spec.filters[k].column \in columns
         IN Err(RequestFailed(<<"Filter column not found in dataset",
                                spec.filters[i].column>>))
    ELSE Ok(<<>>)

\* the specs the language model may answer with
AISpec(x_field, y_field, group_by, filters) ==
    [x_field |-> x_field, y_field |-> y_field, group_by |-> group_by, filters |-> filters]
AISpecs ==
    {AISpec("category", "amount", None, <<>>),
     AISpec("category", "value", None, <<>>),
     AISpec("category", "amount", Some("region"), <<>>),
     AISpec("date", "amount", None, <<FilterSpec("value", "gt", "number")>>)}

\* what the completion is parsed to: no JSON, an intent without its
\* payload or with it
ModelReplies ==
    {[intent |-> "unparsable", spec |-> None]}
       \cup {[intent |-> i, spec |-> None] : i \in {"visualization", "question", "other"}}
       \cup {[intent |-> "visualization", spec |-> Some(sp)] : sp \in AISpecs}

\* the code after the await of process_ai_query and of process_ai_chat
ai_result(cmd, reply, columns) ==
    IF reply.intent = "unparsable"
    THEN Err([type |-> "ParseError", msg |-> "No valid JSON found in response"])
    ELSE IF cmd = "process_ai_query"
    THEN IF reply.spec = None THEN Err([type |-> "ParseError", msg |-> "serde"])
         ELSE IF validate_spec(reply.spec[1], columns).ok
         THEN Ok([kind |-> "Visualization", spec |-> reply.spec[1]])
         ELSE validate_spec(reply.spec[1], columns)
    ELSE IF reply.intent = "visualization"
    THEN IF reply.spec = None
         THEN Err([type |-> "ParseError", msg |-> "Missing visualization spec in response"])
         ELSE IF validate_spec(reply.spec[1], columns).ok
         THEN Ok([kind |-> "Visualization", spec |-> reply.spec[1]])
         ELSE validate_spec(reply.spec[1], columns)
    ELSE IF reply.intent = "question"
    THEN Ok([kind |-> "Answer", spec |-> <<>>])
    ELSE Ok([kind |-> "Error", spec |-> <<>>])

InitLock ==
    /\ store = DataState_new
    /\ pc = "idle"
    /\ req = NoReq
    /\ plan = NoPlan
    /\ resp = NoResp
    /\ vals = NoVals
    /\ mutex = None
    /\ tasks = IdleTasks

\* a command is invoked; load_csv reads its file before it asks for the lock
Invoke(t) ==
    /\ tasks[t].at = "idle"
    /\ \E cmd \in QueryCommands \cup StoreCommands \cup AICommands :
       \E df \in IF cmd = "load_csv" THEN {Some(f) : f \in LockFrames} ELSE {None} :
          tasks' = [tasks EXCEPT ![t] = [cmd |-> cmd, at |-> "waiting", df |-> df,
                                         columns |-> {}, result |-> None]]
    /\ UNCHANGED <<store, pc, req, plan, resp, vals, mutex>>

\* let data_state = state.lock()
Lock(t) ==
    /\ tasks[t].at = "waiting"
    /\ mutex = None
    /\ mutex' = Some(t)
    /\ tasks' = [tasks EXCEPT ![t].at = "locked"]
    /\ UNCHANGED <<store, pc, req, plan, resp, vals>>

\* let df = data_state.get_dataframe().ok_or(DataError::NoData)?.clone():
\* the early return drops the guard, the clone leaves it alive
CloneFrame(t) ==
    /\ tasks[t].at = "locked"
    /\ tasks[t].cmd \in QueryCommands
    /\ IF get_dataframe(store) = None
       THEN /\ tasks' = [tasks EXCEPT ![t].at = "returned", ![t].result = Some(Err(NoData))]
            /\ mutex' = None
       ELSE /\ tasks' = [tasks EXCEPT ![t].at = "computing", ![t].df = get_dataframe(store)]
            /\ mutex' = mutex
    /\ UNCHANGED <<store, pc, req, plan, resp, vals>>

\* validation, filters, aggregation, sorting, sampling and collect, all on
\* the clone
Compute(t) ==
    /\ tasks[t].at = "computing"
    /\ \E ok \in BOOLEAN :
          tasks' = [tasks EXCEPT ![t].at = "computed",
                                 ![t].result = Some(IF ok THEN Ok(height(tasks[t].df[1]))
                                                    ELSE Err(EngineError("collect")))]
    /\ UNCHANGED <<store, pc, req, plan, resp, vals, mutex>>

\* the command returns: data_state goes out of scope and the guard with it
Finish(t) ==
    /\ tasks[t].at = "computed"
    /\ mutex' = IF mutex = Some(t) THEN None ELSE mutex
    /\ tasks' = [tasks EXCEPT ![t].at = "returned"]
    /\ UNCHANGED <<store, pc, req, plan, resp, vals>>

\* load_csv and clear_data change the store under the lock and return
Mutate(t) ==
    /\ tasks[t].at = "locked"
    /\ tasks[t].cmd \in StoreCommands
    /\ store' = IF tasks[t].cmd = "load_csv"
                THEN load_csv(store, "data.csv", tasks[t].df[1])
                ELSE clear(store)
    /\ mutex' = None
    /\ tasks' = [tasks EXCEPT ![t].at = "returned", ![t].result = Some(Ok(<<>>))]
    /\ UNCHANGED <<pc, req, plan, resp, vals>>

\* the block that snapshots the columns under the lock: the guard is dropped
\* at its end, before the request to the language model is sent
SnapshotColumns(t) ==
    /\ tasks[t].at = "locked"
    /\ tasks[t].cmd \in AICommands
    /\ IF get_dataframe(store) = None
       THEN tasks' = [tasks EXCEPT ![t].at = "returned",
                                   ![t].result = Some(Err(RequestFailed("No data loaded")))]
       ELSE tasks' = [tasks EXCEPT ![t].at = "awaiting",
                                   ![t].columns = column_names(get_dataframe(store)[1])]
    /\ mutex' = None
    /\ UNCHANGED <<store, pc, req, plan, resp, vals>>

\* client.complete(prompt).await returns; the reply is parsed and the spec
\* validated against the snapshot
ModelResponds(t) ==
    /\ tasks[t].at = "awaiting"
    /\ \E reply \in ModelReplies \cup {[intent |-> "failed", spec |-> None]} :
          tasks' = [tasks EXCEPT
                       ![t].at = "returned",
                       ![t].result =
                           Some(IF reply.intent = "failed"
                                THEN Err(RequestFailed("completion failed"))
                                ELSE ai_result(tasks[t].cmd, reply, tasks[t].columns))]
    /\ UNCHANGED <<store, pc, req, plan, resp, vals, mutex>>

Complete(t) ==
    /\ tasks[t].at = "returned"
    /\ tasks' = [tasks EXCEPT ![t] = IdleTask]
    /\ UNCHANGED <<store, pc, req, plan, resp, vals, mutex>>

NextLock ==
    \/ \E t \in Tasks : Invoke(t)
    \/ \E t \in Tasks : Lock(t)
    \/ \E t \in Tasks : CloneFrame(t)
    \/ \E t \in Tasks : Compute(t)
    \/ \E t \in Tasks : Finish(t)
    \/ \E t \in Tasks : Mutate(t)
    \/ \E t \in Tasks : SnapshotColumns(t)
    \/ \E t \in Tasks : ModelResponds(t)
    \/ \E t \in Tasks : Complete(t)

SpecLock == InitLock /\ [][NextLock]_vars


(***************************************************************************)
(* state.rs and ingest.rs: the data store under its own operations and the *)
(* three load commands.  vals remembers the call just made: the store      *)
(* before it and the names inserted since the store was last emptied.      *)
(***************************************************************************)
TableNames == {"default", "Sheet1", "Sheet2"}
SheetNames == {"Sheet1", "Sheet2"}
StoreFrames == {df \in LockFrames : "value" \notin column_names(df) /\ df.columns.category.n_unique \in {0, 3}}

FileNotFound(path) == [type |-> "FileNotFound", path |-> path]

\* Result<(), String> of DataState::set_active_table
set_active_table_result(st, name) ==
    IF name \in DOMAIN st.tables THEN Ok(<<>>) ELSE Err(<<"Table not found", name>>)

\* what a load command finds at its path: no file, a file the reader
\* rejects, or a file read into a frame
DataFiles ==
    {[exists |-> FALSE, content |-> None], [exists |-> TRUE, content |-> None]}
       \cup {[exists |-> TRUE, content |-> Some(df)] : df \in StoreFrames}

\* a workbook's sheets in order: a sheet is read into a frame, or is skipped
\* (its range cannot be read, it has no header row, or its columns make no
\* frame)
Sheet(name, frame) == [name |-> name, frame |-> frame]
Workbooks ==
    {<<>>}
       \cup {<<Sheet(n, f)>> : n \in SheetNames, f \in {None} \cup {Some(df) : df \in StoreFrames}}
       \cup {wb \in {<<Sheet(n1, f1), Sheet(n2, f2)>> :
                         n1 \in SheetNames, n2 \in SheetNames,
                         f1 \in {None} \cup {Some(df) : df \in StoreFrames},
                         f2 \in {None} \cup {Some(df) : df \in StoreFrames}} :
                wb[1].name # wb[2].name}
ExcelFiles ==
    {[exists |-> FALSE, content |-> None], [exists |-> TRUE, content |-> None]}
       \cup {[exists |-> TRUE, content |-> Some(wb)] : wb \in Workbooks}

Loaded(st, result) == [state |-> st, result |-> result]

\* load_csv and load_json as commands: every error return precedes the lock
load_csv_command(st, path, file) ==
    IF ~file.exists THEN Loaded(st, Err(FileNotFound(path)))
    ELSE IF file.content = None THEN Loaded(st, Err(EngineError("read")))
    ELSE Loaded(load_csv(st, path, file.content[1]), Ok([tables |-> <<"default">>]))

load_json_command(st, path, file) ==
    IF ~file.exists THEN Loaded(st, Err(FileNotFound(path)))
    ELSE IF file.content = None THEN Loaded(st, Err(EngineError("read")))
    ELSE Loaded(set_file_path(
                    set_active_table(add_dataframe(clear(st), "default", file.content[1]),
                                     "default"),
                    path),
                Ok([tables |-> <<"default">>]))

\* the loop over the sheets: each sheet read into a frame is added
RECURSIVE load_sheets(_, _)
load_sheets(st, sheets) ==
    IF sheets = <<>> THEN st
    ELSE load_sheets(IF Head(sheets).frame = None THEN st
                     ELSE add_dataframe(st, Head(sheets).name, Head(sheets).frame[1]),
                     Tail(sheets))

RECURSIVE loaded_tables(_)
loaded_tables(sheets) ==
    IF sheets = <<>> THEN <<>>
    ELSE (IF Head(sheets).frame = None THEN <<>> ELSE <<Head(sheets).name>>)
            \o loaded_tables(Tail(sheets))

\* load_excel: the store is cleared and given the path once the workbook is
\* open, before any sheet is read
load_excel(st, path, file) ==
    IF ~file.exists THEN Loaded(st, Err(FileNotFound(path)))
    ELSE IF file.content = None THEN Loaded(st, Err(EngineError("open_workbook")))
    ELSE IF file.content[1] = <<>> THEN Loaded(st, Err(NoData))
    ELSE LET sheets == file.content[1]
             filled == load_sheets(set_file_path(clear(st), path), sheets)
             first_valid_sheet == loaded_tables(sheets)
         IN IF first_valid_sheet # <<>>
            THEN Loaded(set_active_table(filled, first_valid_sheet[1]),
                        Ok([tables |-> loaded_tables(sheets)]))
            ELSE Loaded(filled, Err(NoData))

StoreCall(op, name) == [op |-> op, name |-> name]
Called(call, before, inserted) ==
    [fn |-> "store", call |-> call, before |-> before, inserted |-> inserted]

\* the names of a sequence, each at its first place
RECURSIVE first_places(_)
first_places(names) ==
    IF names = <<>> THEN <<>>
    ELSE LET front == first_places(SubSeq(names, 1, Len(names) - 1))
             last == names[Len(names)]
         IN IF \E i \in 1..Len(front) : front[i] = last THEN front ELSE Append(front, last)

InitStore ==
    /\ store = DataState_new
    /\ pc = "idle"
    /\ req = NoReq
    /\ plan = NoPlan
    /\ resp = NoResp
    /\ mutex = None
    /\ tasks = IdleTasks
    /\ vals = Called(StoreCall("new", ""), DataState_new, <<>>)

AddDataframe ==
    /\ \E name \in TableNames, df \in StoreFrames :
          /\ store' = add_dataframe(store, name, df)
          /\ vals' = Called(StoreCall("add_dataframe", name), store,
                            first_places(Append(vals.inserted, name)))
    /\ resp' = Ok(<<>>)
    /\ UNCHANGED <<mutex, tasks, pc, req, plan>>

SetActiveTable ==
    /\ \E name \in TableNames :
          /\ store' = set_active_table(store, name)
          /\ resp' = set_active_table_result(store, name)
          /\ vals' = Called(StoreCall("set_active_table", name), store, vals.inserted)
    /\ UNCHANGED <<mutex, tasks, pc, req, plan>>

SetFilePath ==
    /\ store' = set_file_path(store, "data.csv")
    /\ resp' = Ok(<<>>)
    /\ vals' = Called(StoreCall("set_file_path", "data.csv"), store, vals.inserted)
    /\ UNCHANGED <<mutex, tasks, pc, req, plan>>

Clear ==
    /\ store' = clear(store)
    /\ resp' = Ok(<<>>)
    /\ vals' = Called(StoreCall("clear", ""), store, <<>>)
    /\ UNCHANGED <<mutex, tasks, pc, req, plan>>

\* the names a load has inserted after it emptied the store
inserted_by(r, before) ==
    IF r.result.ok THEN r.result.value.tables ELSE before

LoadCsv ==
    /\ \E file \in DataFiles :
          LET r == load_csv_command(store, "data.csv", file)
          IN /\ store' = r.state
             /\ resp' = r.result
             /\ vals' = Called(StoreCall("load_csv", "data.csv"), store,
                               inserted_by(r, vals.inserted))
    /\ UNCHANGED <<mutex, tasks, pc, req, plan>>

LoadJson ==
    /\ \E file \in DataFiles :
          LET r == load_json_command(store, "data.json", file)
          IN /\ store' = r.state
             /\ resp' = r.result
             /\ vals' = Called(StoreCall("load_json", "data.json"), store,
                               inserted_by(r, vals.inserted))
    /\ UNCHANGED <<mutex, tasks, pc, req, plan>>

LoadExcel ==
    /\ \E file \in ExcelFiles :
          LET r == load_excel(store, "book.xlsx", file)
          IN /\ store' = r.state
             /\ resp' = r.result
             /\ vals' = Called(StoreCall("load_excel", "book.xlsx"), store,
                               IF r.state = store THEN vals.inserted
                               ELSE IF r.result.ok THEN r.result.value.tables ELSE <<>>)
    /\ UNCHANGED <<mutex, tasks, pc, req, plan>>

NextStore ==
    \/ AddDataframe
    \/ SetActiveTable
    \/ SetFilePath
    \/ Clear
    \/ LoadCsv
    \/ LoadJson
    \/ LoadExcel

SpecStore == InitStore /\ [][NextStore]_vars

(***************************************************************************)
(* Properties                                                              *)
(***************************************************************************)
loaded_frame == get_dataframe(store)[1]
chart_served == pc = "done" /\ req.op \in {"visualization", "scatter", "progressive"}
plan_served == req.op = "plan" /\ plan # NoPlan
kinds(p) == [i \in 1..Len(p.transformations) |-> p.transformations[i].t]
positions(p, kind) == {i \in 1..Len(p.transformations) : p.transformations[i].t = kind}

\* C1: every successful chart request (the visualization, scatter and
\* progressive queries, and the execution of a plan the planner produced)
\* returns at most MAX_VISUAL_POINTS points, whatever the dataset, the spec
\* and the filters.
C1_ReturnedPointsCapped ==
    /\ (chart_served /\ resp.kind = "ok") =>
          /\ resp.value.data <= MAX_VISUAL_POINTS
          /\ resp.value.metadata.returned_points <= MAX_VISUAL_POINTS
    /\ (pc = "done" /\ plan_served /\ resp.kind = "ok") =>
          /\ resp.value.data.height <= MAX_VISUAL_POINTS
          /\ resp.value.metadata.returned_points <= MAX_VISUAL_POINTS

\* a scatter query on more rows than the cap, answered with as many points
\* as the scatter limit allows
C1_Witness ==
    /\ chart_served /\ req.op = "scatter" /\ resp.kind = "ok"
    /\ height(loaded_frame) > MAX_VISUAL_POINTS
    /\ resp.value.metadata.returned_points = SCATTER_MAX_POINTS

\* C2: in every plan of the planner a Filter, when present, is the first
\* transformation, every TopN has an Aggregate before it, a DateBin comes
\* before the Aggregate, and Limit is the last transformation.
C2_PlanOrder ==
    plan_served =>
        /\ \A i \in positions(plan, "Filter") : i = 1
        /\ \A i \in positions(plan, "TopN") :
              \E j \in positions(plan, "Aggregate") : j < i
        /\ \A i \in positions(plan, "DateBin") :
              \A j \in positions(plan, "Aggregate") : i < j
        /\ kinds(plan) # <<>> /\ kinds(plan)[Len(kinds(plan))] = "Limit"

\* C3: every plan of the planner holds exactly one Limit, in the last place,
\* of value min(policy.max_points, MAX_VISUAL_POINTS) for the policy of the
\* spec's chart type.
C3_OneFinalLimit ==
    plan_served =>
        /\ positions(plan, "Limit") = {Len(plan.transformations)}
        /\ plan.transformations # <<>>
        /\ plan.transformations[Len(plan.transformations)].n =
              Min(for_chart_type(req.spec.chart_type).max_points, MAX_VISUAL_POINTS)

\* a plan with a filter, an aggregation and a Top-N before the pie limit
C3_Witness ==
    /\ plan_served
    /\ Len(plan.transformations) >= 4
    /\ plan.transformations[Len(plan.transformations)] = Limit(PIE_MAX_POINTS)

\* C4: a plan that is not safe has no transformations, and executing it
\* returns an error carrying the blocking reason (a default message without
\* one), with no transformation applied and no data returned.
C4_BlockedPlanRefused ==
    (plan # NoPlan /\ ~plan.is_safe) =>
        /\ plan.transformations = <<>>
        /\ pc = "done" =>
              /\ resp.kind = "err"
              /\ resp.error = ParseError(IF plan.blocking_reason # None
                                         THEN plan.blocking_reason[1]
                                         ELSE "Query blocked for safety")
              /\ resp.applied = 0

\* a blocked plan for a non-empty dataset has been executed
C4_Witness ==
    /\ pc = "done" /\ plan # NoPlan /\ ~plan.is_safe
    /\ resp.kind = "err"
    /\ height(loaded_frame) > 0


\* C5: Top-N with Others on more than n aggregated groups keeps the sum of
\* the values: the rows returned sum to what all groups summed to, for any
\* group values.
C5_SumConserved ==
    (/\ vals.fn = "apply_top_n_with_others"
     /\ vals.include_others
     /\ Len(vals.df) > vals.n
     /\ vals.result.kind = "ok") =>
        SumSeq(values_of(vals.result.value[1])) = SumSeq(values_of(vals.df))

\* C6: the plan executor's TopN(n, include_others) on g groups returns, for
\* g > n, the n largest groups followed by an "Others" row holding the sum
\* of the rest, and for g <= n the g groups and no more.
C6_ExecutorTopNOthers ==
    (vals.fn = "apply_top_n" /\ vals.include_others) =>
        IF Len(vals.df) > vals.n
        THEN /\ Len(vals.out) = vals.n + 1
             /\ \A i \in 1..vals.n : \E j \in 1..Len(vals.df) : vals.out[i] = vals.df[j]
             /\ \A i \in 1..vals.n : \A j \in 1..Len(vals.df) :
                   vals.df[j].value > vals.out[i].value =>
                      \E k \in 1..vals.n : vals.out[k] = vals.df[j]
             /\ vals.out[vals.n + 1].x = "Others"
             /\ vals.out[vals.n + 1].value =
                   SumSeq(values_of(vals.df)) - SumSeq(values_of(SubSeq(vals.out, 1, vals.n)))
        ELSE /\ Len(vals.out) = Len(vals.df)
             /\ {vals.out[i] : i \in 1..Len(vals.out)} = {vals.df[i] : i \in 1..Len(vals.df)}

\* C7: a table query returns at most min(page_size, TABLE_MAX_PAGE_SIZE)
\* rows and reports min(page_size, TABLE_MAX_PAGE_SIZE) as its page size,
\* whatever page, page size, sort and filters were asked for.
C7_PageSizeCapped ==
    (pc = "done" /\ req.op = "table" /\ resp.kind = "ok") =>
        /\ resp.value.rows <= Min(req.page_size, TABLE_MAX_PAGE_SIZE)
        /\ resp.value.page_size = Min(req.page_size, TABLE_MAX_PAGE_SIZE)

\* a page of 5000 rows was asked of a larger table: 1000 came back
C7_Witness ==
    /\ pc = "done" /\ req.op = "table" /\ resp.kind = "ok"
    /\ req.page_size = 5 * TABLE_MAX_PAGE_SIZE
    /\ resp.value.total_rows > TABLE_MAX_PAGE_SIZE
    /\ resp.value.rows = TABLE_MAX_PAGE_SIZE
    /\ resp.value.page_size = TABLE_MAX_PAGE_SIZE

\* C8: a table query never panics: for every page, page size and filtered
\* row count it ends with table data or a DataError.
C8_TableQueryNeverPanics ==
    (pc = "done" /\ req.op = "table") => resp.kind \in {"ok", "err"}

\* C9: without filters, under a policy that does not ask for aggregation,
\* with X's unique count and the row count within policy.max_points, the
\* plan holds no Aggregate, TopN or Sample and its execution returns as many
\* points as the dataset has rows; the scatter query returns every filtered
\* row when there are at most SCATTER_MAX_POINTS of them.
C9_NoSpuriousReduction ==
    /\ (/\ pc = "done" /\ plan_served
        /\ req.spec.filters = <<>>
        /\ ~plan.safety_config.requires_aggregation
        /\ plan.cardinality_info[req.spec.x_field].unique_count
              <= plan.safety_config.max_points
        /\ plan.original_row_count <= plan.safety_config.max_points) =>
           /\ positions(plan, "Aggregate") \cup positions(plan, "TopN")
                 \cup positions(plan, "Sample") = {}
           /\ resp.kind = "ok"
           /\ resp.value.metadata.returned_points = plan.original_row_count
    /\ (/\ chart_served /\ req.op = "scatter" /\ resp.kind = "ok"
        /\ req.data.kept <= SCATTER_MAX_POINTS) =>
           /\ resp.value.metadata.returned_points = req.data.kept
           /\ ~resp.value.metadata.reduced

aggregated_chart == req.spec.chart_type \in {"bar", "line", "area", "pie"}

filtered_count == IF req.spec.filters = <<>> THEN height(loaded_frame) ELSE req.data.kept

\* C12: a scatter query whose filtered row count exceeds the scatter cap
\* is sampled: reduced is set, the reason is "sampling", exactly
\* SCATTER_MAX_POINTS points are returned, and the reported sample ratio is
\* the number of points returned over the filtered row count.
C12_ScatterSampledToCap ==
    (/\ pc = "done" /\ req.op = "scatter" /\ resp.kind = "ok"
     /\ filtered_count > SCATTER_MAX_POINTS) =>
        /\ resp.value.metadata.reduced
        /\ resp.value.metadata.reduction_reason = "sampling"
        /\ resp.value.metadata.returned_points = SCATTER_MAX_POINTS
        /\ resp.value.metadata.sample_ratio
              = <<resp.value.metadata.returned_points, filtered_count>>

\* the reduction step a reducing transformation is recorded as
step_type_of(kind) ==
    CASE kind = "DateBin"   -> "DateBinning"
      [] kind = "Aggregate" -> "AutoAggregation"
      [] kind = "TopN"      -> "TopN"
      [] kind = "Sample"    -> "Sampling"

reducing(t) == t.t \in {"DateBin", "Aggregate", "TopN", "Sample"}

\* the step types a plan's reducing transformations call for, in plan order
expected_steps(p) ==
    LET r == SelectSeq(p.transformations, reducing)
    IN [i \in 1..Len(r) |-> step_type_of(r[i].t)]

recorded_steps(p) ==
    [i \in 1..Len(p.reduction_metadata.reduction_steps) |->
        p.reduction_metadata.reduction_steps[i].step_type]

\* C15: the reduction steps of a plan's metadata are the plan's reducing
\* transformations (DateBin, Aggregate, TopN, Sample), one step each in
\* the same order, and top_n_value, sample_ratio and date_bin_granularity
\* are set for every such transformation in the plan.
C15_AuditTrailComplete ==
    (pc # "idle" /\ plan_served) =>
        /\ recorded_steps(plan) = expected_steps(plan)
        /\ plan_has(plan, "TopN") => plan.reduction_metadata.top_n_value # None
        /\ plan_has(plan, "Sample") => plan.reduction_metadata.sample_ratio # None
        /\ plan_has(plan, "DateBin") => plan.reduction_metadata.date_bin_granularity # None

\* C17: a progressive query returns no more points than the zoom-scaled
\* budget calculate_point_limit of the chart type's base budget.
C17_ZoomBudgetApplied ==
    (pc = "done" /\ req.op = "progressive" /\ resp.kind = "ok") =>
        resp.value.metadata.returned_points
           <= calculate_point_limit(Max(0, Min(100, req.zoom_level)),
                                    get_max_points_for_chart(req.spec.chart_type))

\* C18: the planner refuses a spec whose Gt, Lt, Gte or Lte filter has a
\* value that is not a number: it returns an error and no plan, so no plan
\* with such a filter reaches the executor.
C18_WrongFilterTypeRefusedByPlanner ==
    (/\ pc # "idle" /\ req.op = "plan"
     /\ has_column(loaded_frame, req.spec.x_field)
     /\ has_column(loaded_frame, req.spec.y_field)
     /\ apply_filters_error(req.spec.filters) # None) =>
        /\ plan = NoPlan
        /\ pc = "done"
        /\ resp.kind = "err"

\* the first of the spec's X and Y fields that the frame lacks
missing_field(df, spec) ==
    IF ~has_column(df, spec.x_field) THEN spec.x_field ELSE spec.y_field

\* C19: a planner call or a visualization or scatter query whose X or Y
\* field is not a column of the dataset fails, with no plan built, with a
\* column-not-found error that names the missing column (X before Y) and
\* lists the available columns.
C19_MissingColumnNamed ==
    (/\ pc = "done" /\ req.op \in {"plan", "visualization", "scatter"}
     /\ get_dataframe(store) # None
     /\ \/ ~has_column(loaded_frame, req.spec.x_field)
        \/ ~has_column(loaded_frame, req.spec.y_field)) =>
        /\ plan = NoPlan
        /\ resp.kind = "err"
        /\ resp.error = ColumnNotFound(missing_field(loaded_frame, req.spec),
                                       column_names(loaded_frame))

\* C20: a visualization query of an aggregated chart returns at most the
\* chart type's cap of points (500 for bar, line and area, 20 for pie).
C20_ChartCapEnforced ==
    (/\ pc = "done" /\ req.op = "visualization" /\ resp.kind = "ok"
     /\ aggregated_chart) =>
        /\ resp.value.data <= get_max_points_for_chart(req.spec.chart_type)
        /\ resp.value.metadata.returned_points
              <= get_max_points_for_chart(req.spec.chart_type)

\* C11: two invocations of one sampling strategy on the same frame with
\* the same seed and target size return the same rows in the same order.
C11_SamplingDeterministic ==
    Len(vals.runs) = 2 => vals.runs[1] = vals.runs[2]

\* C13: on a frame of more rows than the target size every strategy
\* returns a result, not an error, of at most target_size rows.
C13_SampleWithinTarget ==
    \A i \in 1..Len(vals.runs) :
        Len(vals.df) > vals.config.target_size =>
            /\ vals.runs[i].kind = "ok"
            /\ Len(vals.runs[i].value.data) <= vals.config.target_size
            /\ vals.runs[i].value.sampled_rows <= vals.config.target_size

\* C14: on a frame of at most target_size rows every strategy returns the
\* frame itself, rows and order unchanged, with sampled_rows = total_rows
\* and sample_ratio = 1.0.
C14_NoSamplingUnderTarget ==
    \A i \in 1..Len(vals.runs) :
        Len(vals.df) <= vals.config.target_size =>
            /\ vals.runs[i].kind = "ok"
            /\ vals.runs[i].value.data = vals.df
            /\ vals.runs[i].value.sampled_rows = Len(vals.df)
            /\ vals.runs[i].value.original_rows = Len(vals.df)
            /\ vals.runs[i].value.sample_ratio = Ratio(1, 1)

\* a stratified sampler asked for three rows of a three-row frame of two
\* strata: it has returned the frame
C14_Witness ==
    /\ vals.method = "Stratified" /\ Len(vals.runs) = 2
    /\ Len(vals.df) = 3 /\ vals.config.target_size = 3
    /\ strata_of(vals.df) = StrataLabels
    /\ vals.config.stratify_by = Some("category")
    /\ vals.runs[2].kind = "ok" /\ vals.runs[2].value.data = vals.df

\* C16: a query command holds the data store's mutex only while it looks
\* up and clones the dataset: while it computes on the clone the mutex is
\* not held by it.
C16_LockReleasedBeforeCompute ==
    \A t \in Tasks :
        (tasks[t].cmd \in QueryCommands /\ tasks[t].at \in {"computing", "computed"}) =>
            mutex # Some(t)

\* the tier the thresholds 10 / 100 / 1000 give a column of u distinct values
tier_of(info) ==
    IF info.is_numeric /\ ~info.is_datetime THEN "Continuous"
    ELSE IF info.unique_count < 10 THEN "Low"
    ELSE IF info.unique_count <= 100 THEN "Medium"
    ELSE IF info.unique_count <= HIGH_CARDINALITY_THRESHOLD THEN "High"
    ELSE "VeryHigh"

\* C21: CardinalityInfo::estimate puts a numeric non-datetime column in
\* tier Continuous and any other column in Low when its unique count is
\* below 10, Medium from 10 to 100, High above 100 up to 1000 and VeryHigh
\* above 1000.
C21_CardinalityTiers ==
    plan_served =>
        \A f \in DOMAIN plan.cardinality_info :
            plan.cardinality_info[f].cardinality_level = tier_of(plan.cardinality_info[f])

\* a Sample as the planner's step 3e appends it for this request
planned_sample ==
    [t |-> "Sample",
     target_rows |-> calculate_point_limit(req.zoom_level, plan.safety_config.max_points),
     seed |-> 42]

\* C23: a plan never holds both an Aggregate and a Sample; it holds a
\* Sample, exactly one, with seed 42 and the zoom-scaled budget as target,
\* exactly when the policy allows sampling, no Aggregate was planned and
\* the row count exceeds the policy's max_points; plans for bar, line,
\* area and pie charts hold no Sample.
C23_SampleOnlyWithoutAggregate ==
    plan_served =>
        /\ ~(plan_has(plan, "Aggregate") /\ plan_has(plan, "Sample"))
        /\ plan_has(plan, "Sample")
              <=> /\ plan.safety_config.allows_sampling
                  /\ ~plan_has(plan, "Aggregate")
                  /\ plan.original_row_count > plan.safety_config.max_points
        /\ \A i \in positions(plan, "Sample") : plan.transformations[i] = planned_sample
        /\ Cardinality(positions(plan, "Sample")) <= 1
        /\ aggregated_chart => ~plan_has(plan, "Sample")

\* a scatter plan at half zoom for more rows than the scatter limit, with
\* its Sample of 6,001 rows
C23_Witness ==
    /\ plan_served /\ req.spec.chart_type = "scatter" /\ req.zoom_level = 50
    /\ plan_has(plan, "Sample")
    /\ \E i \in positions(plan, "Sample") : plan.transformations[i].target_rows = 6001

x_cardinality == plan.cardinality_info[req.spec.x_field].unique_count

\* C24: a plan holds an Aggregate, exactly one, grouping by the X field
\* and measuring the Y field with the spec's aggregation, exactly when the
\* policy requires aggregation or X's estimated unique count exceeds the
\* policy's max_points; the AutoAggregation step recorded for it has the
\* row count as input and min(unique X count, row count) as output.
C24_AggregateWhenRequired ==
    plan_served =>
        /\ plan_has(plan, "Aggregate")
              <=> \/ plan.safety_config.requires_aggregation
                  \/ x_cardinality > plan.safety_config.max_points
        /\ Cardinality(positions(plan, "Aggregate")) <= 1
        /\ \A i \in positions(plan, "Aggregate") :
              plan.transformations[i]
                 = [t |-> "Aggregate", group_by |-> req.spec.x_field,
                    measure |-> req.spec.y_field, aggregation |-> req.spec.aggregation]
        /\ aggregated_chart => plan_has(plan, "Aggregate")
        /\ plan_has(plan, "Aggregate") =>
              \E i \in 1..Len(plan.reduction_metadata.reduction_steps) :
                 plan.reduction_metadata.reduction_steps[i]
                    = ReductionStep("AutoAggregation", plan.original_row_count,
                                    Min(x_cardinality, plan.original_row_count))

\* a scatter plan that aggregates because X has more distinct values than
\* the scatter limit
C24_Witness ==
    /\ plan_served /\ req.spec.chart_type = "scatter"
    /\ plan_has(plan, "Aggregate")
    /\ x_cardinality > DEFAULT_SCATTER_LIMIT

\* the metadata fields the executor copies from the plan
copied_fields ==
    {"reduced", "reduction_reason", "original_row_estimate", "sample_ratio",
     "top_n_value", "date_bin_granularity", "warning_message", "reduction_steps"}

\* C25: a successful PlanExecutor::execute returns metadata whose
\* returned_points is the row count of the returned dataset and whose other
\* fields are those of plan.reduction_metadata, and leaves the plan as it
\* was.
C25_ReturnedPointsCorrected ==
    [][pc = "planned" /\ pc' = "done" /\ resp'.kind = "ok" =>
          /\ plan' = plan
          /\ resp'.value.metadata.returned_points = resp'.value.data.height
          /\ DOMAIN resp'.value.metadata = copied_fields \cup {"returned_points"}
          /\ \A f \in copied_fields :
                resp'.value.metadata[f] = plan.reduction_metadata[f]]_vars

\* an execution whose row count differs from the planner's estimate
C25_Witness ==
    /\ pc = "done" /\ plan_served /\ resp.kind = "ok"
    /\ resp.value.metadata.returned_points = resp.value.data.height
    /\ resp.value.metadata.returned_points # plan.reduction_metadata.returned_points

\* C28: PlanExecutor::execute on a plan made for a spec without filters,
\* and on the dataset it was planned for, returns a result: Sort and TopN
\* on "value" run only after an Aggregate has created that column.
C28_PlansExecutable ==
    pc = "done" /\ plan_served /\ plan.is_safe /\ req.spec.filters = <<>> =>
        resp.kind = "ok"

\* the ids of the rows of a frame, in its order, and those of one stratum
ids_of(data) == [i \in 1..Len(data) |-> data[i].id]
ids_in(data, v) == {data[i].id : i \in {j \in 1..Len(data) : data[j].category = v}}

\* the share of a stratum of s rows: min(s, max(ceil(s * target / total), floor))
share(s, config, total) ==
    LET proportional == (s * config.target_size + total - 1) \div total
        floored == IF proportional >= config.min_samples_per_stratum
                   THEN proportional ELSE config.min_samples_per_stratum
    IN IF floored <= s THEN floored ELSE s

\* the rows kept of a stratum are those of lowest score among its rows, the
\* score of its k-th row (k from 0) under the seed sd being (k * sd) mod p
lowest_in_stratum(df, data, v, sd) ==
    LET members == {df[i].id : i \in {j \in 1..Len(df) : df[j].category = v}}
        rank(id) == Cardinality({m \in members : m < id})
    IN \A kept \in ids_in(data, v), dropped \in members \ ids_in(data, v) :
          (rank(kept) * sd) % 1000000007 <= (rank(dropped) * sd) % 1000000007

\* C26: a stratified sample by an existing column of a frame of more rows
\* than the target holds, of each stratum of s rows, exactly
\* min(s, max(ceil(s * target / total), floor)) rows, chosen by the
\* reservoir method with seed + stratum index; it is the per-stratum
\* samples one after another, with one statistics entry per stratum; with
\* no column to stratify by, it is the reservoir sample.
C26_StratifiedShares ==
    \A i \in 1..Len(vals.runs) :
        vals.method = "Stratified" /\ Len(vals.df) > vals.config.target_size =>
            LET run == vals.runs[i]
                total == Len(vals.df)
            IN /\ vals.config.stratify_by = Some("category") =>
                    /\ run.kind = "ok"
                    /\ run.value.method = "Stratified"
                    /\ run.value.strata_stats # None
                    /\ LET stats == run.value.strata_stats[1]
                           data == run.value.data
                           before(k) == {n \in 1..Len(data) :
                                            \E j \in 1..(k - 1) :
                                               data[n].category = stats[j].stratum_value}
                       IN /\ Len(stats) = Cardinality(strata_of(vals.df))
                          /\ {stats[k].stratum_value : k \in 1..Len(stats)}
                                = strata_of(vals.df)
                          /\ \A n \in 1..Len(data) : data[n] = vals.df[data[n].id]
                          /\ \A k \in 1..Len(stats) :
                                LET v == stats[k].stratum_value
                                    s == Cardinality(ids_in(vals.df, v))
                                IN /\ Cardinality(ids_in(data, v))
                                         = share(s, vals.config, total)
                                   /\ stats[k].original_count = s
                                   /\ stats[k].sampled_count = share(s, vals.config, total)
                                   /\ lowest_in_stratum(vals.df, data, v,
                                                        vals.config.seed + (k - 1))
                                   /\ \A n \in 1..Len(data) :
                                         data[n].category = v =>
                                            /\ Cardinality(before(k)) < n
                                            /\ n <= Cardinality(before(k + 1))
                          /\ \A m, n \in 1..Len(data) :
                                m < n /\ data[m].category = data[n].category
                                   => data[m].id < data[n].id
                          /\ run.value.sampled_rows = Len(data)
                          /\ run.value.original_rows = total
               /\ vals.config.stratify_by = None =>
                    /\ run.kind = "ok"
                    /\ run.value.method = "Reservoir"
                    /\ run.value.strata_stats = None
                    /\ Len(run.value.data) = vals.config.target_size
                    /\ lowest_in_stratum([n \in 1..total |-> [id |-> n, category |-> "all"]],
                                         [n \in 1..Len(run.value.data) |->
                                             [id |-> run.value.data[n].id,
                                              category |-> "all"]],
                                         "all", vals.config.seed)

\* C27: the reservoir sampler on a frame of more rows than the target
\* returns exactly target_size rows, those of lowest score
\* (row_index * seed) mod 1,000,000,007, in their original order, with
\* sample_ratio = target_size / total_rows.
C27_ReservoirLowestScores ==
    \A i \in 1..Len(vals.runs) :
        vals.method = "Reservoir" /\ Len(vals.df) > vals.config.target_size =>
            LET run == vals.runs[i]
                total == Len(vals.df)
                score(id) == ((id - 1) * vals.config.seed) % 1000000007
            IN /\ run.kind = "ok"
               /\ Len(run.value.data) = vals.config.target_size
               /\ run.value.sampled_rows = vals.config.target_size
               /\ run.value.original_rows = total
               /\ run.value.method = "Reservoir"
               /\ \A n \in 1..Len(run.value.data) :
                     run.value.data[n] = vals.df[run.value.data[n].id]
               /\ \A m, n \in 1..Len(run.value.data) :
                     m < n => run.value.data[m].id < run.value.data[n].id
               /\ \A kept \in {run.value.data[n].id : n \in 1..Len(run.value.data)} :
                     \A dropped \in (1..total)
                                       \ {run.value.data[n].id :
                                             n \in 1..Len(run.value.data)} :
                        score(kept) <= score(dropped)
               /\ run.value.sample_ratio = Ratio(vals.config.target_size, total)

\* four rows sampled to two under seed 42: the first two rows are kept
C27_Witness ==
    /\ vals.method = "Reservoir" /\ Len(vals.runs) = 2
    /\ Len(vals.df) = 4 /\ vals.config.target_size = 2
    /\ vals.config.seed = 42
    /\ vals.runs[2].kind = "ok"
    /\ ids_of(vals.runs[2].value.data) = <<1, 2>>

\* the columns a spec refers to
referenced_columns(spec) ==
    {spec.x_field, spec.y_field}
       \cup (IF spec.group_by = None THEN {} ELSE {spec.group_by[1]})
       \cup {spec.filters[i].column : i \in 1..Len(spec.filters)}

\* C22: when process_ai_query or process_ai_chat returns a
\* VisualizationSpec, the data store holds a dataset at that moment and the
\* spec's X, Y, group-by and filter columns are columns of it, also when a
\* load or clear_data ran while the request waited for the language model.
C22_ReturnedSpecMatchesStore ==
    [][\A t \in Tasks :
          (/\ tasks[t].at = "awaiting"
           /\ tasks'[t].at = "returned"
           /\ tasks'[t].result[1].ok
           /\ tasks'[t].result[1].value.kind = "Visualization")
          => /\ get_dataframe(store') # None
             /\ referenced_columns(tasks'[t].result[1].value.spec)
                   \subseteq column_names(get_dataframe(store')[1])]_vars

\* C29: after any sequence of add_dataframe, set_active_table,
\* set_file_path and clear calls, active_table is None or a key of tables,
\* table_order holds exactly the keys of tables, each once, in the order
\* of their first insertion, and a set_active_table with an unknown name
\* has returned an error and left the state as it was.
C29_DataStateInvariants ==
    /\ store.active_table = None \/ store.active_table[1] \in DOMAIN store.tables
    /\ \A i, j \in 1..Len(store.table_order) :
          store.table_order[i] = store.table_order[j] => i = j
    /\ {store.table_order[i] : i \in 1..Len(store.table_order)} = DOMAIN store.tables
    /\ store.table_order = vals.inserted
    /\ (vals.call.op = "set_active_table" /\ vals.call.name \notin DOMAIN vals.before.tables)
          => ~resp.ok /\ store = vals.before

\* with two tables held and one of them active, set_active_table for a
\* third name was refused
C29_Witness ==
    /\ vals.call = StoreCall("set_active_table", "default")
    /\ store.table_order = <<"Sheet2", "Sheet1">>
    /\ store.active_table = Some("Sheet1")
    /\ ~resp.ok

load_commands == {"load_csv", "load_json", "load_excel"}

\* C30: a load command that returned an error has left the store as it
\* was before the call; one that succeeded has left it with the newly
\* loaded tables only and one of them active.
C30_FailedLoadKeepsStore ==
    vals.call.op \in load_commands =>
        /\ ~resp.ok => store = vals.before
        /\ resp.ok =>
              /\ DOMAIN store.tables
                    = {resp.value.tables[i] : i \in 1..Len(resp.value.tables)}
              /\ store.active_table # None
              /\ store.active_table[1] \in DOMAIN store.tables
              /\ store.file_path = Some(vals.call.name)

=============================================================================
